---- MODULE Spec2Model ----
(***************************************************************************)
(* Resource-lifecycle coordinator of the bicycle rental backend:           *)
(* RentalService (rentBicycle / returnBicycle / cancelRental),             *)
(* EventService (registerToEvent / cancelRegistration / markAttendance),   *)
(* MaintenanceLogService (create / completeMaintenance), the bicycle       *)
(* administration of BicycleService (update / updateStatus / delete) and   *)
(* the fare rules of PricingService,                                       *)
(* running as concurrent request handlers over one MongoDB deployment.     *)
(*                                                                         *)
(* Every `await` of a handler is one step of the worker that runs it.      *)
(* Reads issued without the session (all find* calls of the repositories)  *)
(* see the latest committed documents.  Writes issued with the session     *)
(* are buffered in the worker's transaction; the transaction starts at the *)
(* first operation that carries the session, a write to a document that    *)
(* another open transaction has written, or that was committed after the   *)
(* transaction started, fails with a WriteConflict, and commitTransaction  *)
(* publishes the buffered writes in one step.                              *)
(***************************************************************************)
EXTENDS Integers, Sequences, FiniteSets, TLC

\* ---------------------------------------------------------------- bounds
MaxRentals == 2
MaxClock == 1
MaxPid == 3
MaxCalls == 3
MaxLogs == 1
TicksPerHour == 2

\* ------------------------------------------------------------- universes
Procs == {"w1", "w2"}
Users == {"u1", "u2"}
Bikes == {"b1", "b2"}
Events == {"e1"}
NoBike == "b0"
NoEvent == "e0"
\* maxParticipants an event is created with; 0 stands for an absent maxParticipants
Capacities == {0, 1}
RentalIds == 1..MaxRentals
Pids == 1..MaxPid
LogIds == 1..MaxLogs
\* socioeconomicStratum of each rider; 0 stands for an absent stratum
UserTier == [u \in Users |-> IF u = "u1" THEN 0 ELSE 5]
\* userSchema.socioeconomicStratum: 1 to 6, or absent
Tiers == 0..6
Statuses == {"available", "rented", "maintenance", "retired"}
BikeRate == [b \in Bikes |-> IF b = "b1" THEN 5000 ELSE 8000]

VARIABLES now, users, bicycles, rentals, payments, events, participants,
          nextPid, logs, pc, call, loc, txn, res,
          hist,  \* what a sequential caller has seen so far: one entry per response
          calc   \* a PricingService evaluation: its arguments and what it returned

vars == <<now, users, bicycles, rentals, payments, events, participants,
          nextPid, logs, pc, call, loc, txn, res, hist, calc>>

dbVars == <<users, bicycles, rentals, payments, events, participants, nextPid, logs>>

\* ------------------------------------------------------ transaction layer
NoDocs == [bikes |-> {}, rentals |-> {}, events |-> {}, parts |-> {}, keys |-> {}]

DocsUnion(a, b) ==
  [bikes |-> a.bikes \cup b.bikes, rentals |-> a.rentals \cup b.rentals,
   events |-> a.events \cup b.events, parts |-> a.parts \cup b.parts,
   keys |-> a.keys \cup b.keys]

NoTxn == [open |-> FALSE, stale |-> NoDocs, wset |-> NoDocs]

\* session.startTransaction() is client-side only; the server transaction
\* (and its snapshot) starts with the first operation that carries the session
TxnOf(p) == IF txn[p].open THEN txn[p] ELSE [open |-> TRUE, stale |-> NoDocs, wset |-> NoDocs]

ConflictBike(p, b) ==
  \/ b \in TxnOf(p).stale.bikes
  \/ \E q \in Procs \ {p} : txn[q].open /\ b \in txn[q].wset.bikes

ConflictRental(p, i) ==
  \/ i \in TxnOf(p).stale.rentals
  \/ \E q \in Procs \ {p} : txn[q].open /\ i \in txn[q].wset.rentals

ConflictEvent(p, e) ==
  \/ e \in TxnOf(p).stale.events
  \/ \E q \in Procs \ {p} : txn[q].open /\ e \in txn[q].wset.events

ConflictPart(p, id) ==
  \/ id \in TxnOf(p).stale.parts
  \/ \E q \in Procs \ {p} : txn[q].open /\ id \in txn[q].wset.parts

ConflictKey(p, k) ==
  \/ k \in TxnOf(p).stale.keys
  \/ \E q \in Procs \ {p} : txn[q].open /\ k \in txn[q].wset.keys

\* the transaction of p after it wrote the documents d
TxnWrite(p, d) ==
  [txn EXCEPT ![p] = [open |-> TRUE, stale |-> TxnOf(p).stale,
                      wset |-> DocsUnion(TxnOf(p).wset, d)]]

\* session.commitTransaction(): the write set of p becomes visible, and every
\* other open transaction now has these documents newer than its snapshot
TxnCommit(p) ==
  [q \in Procs |->
     IF q = p THEN NoTxn
     ELSE IF txn[q].open
          THEN [txn[q] EXCEPT !.stale = DocsUnion(txn[q].stale, txn[p].wset)]
          ELSE txn[q]]

\* session.abortTransaction(): the buffered writes are dropped
TxnAbort(p) == [txn EXCEPT ![p] = NoTxn]

\* ------------------------------------------------------------------ pricing
\* a discount table whose first band reaches stratum 3
calculateDiscountPercentage_WideFirstBand(stratum) ==
  IF stratum = 0 THEN 0
  ELSE IF stratum >= 1 /\ stratum <= 3 THEN 10
  ELSE IF stratum >= 3 /\ stratum <= 4 THEN 5
  ELSE 0

\* `!socioeconomicStratum` holds for an absent stratum, written 0
calculateDiscountPercentage(stratum) ==
  IF stratum = 0 THEN 0
  ELSE IF stratum >= 1 /\ stratum <= 2 THEN 10
  ELSE IF stratum >= 3 /\ stratum <= 4 THEN 5
  ELSE 0

\* the length of the interval whichever end comes first
Max0_Absolute(x) == IF x > 0 THEN x ELSE 0 - x

\* Math.max(x, 0)
Max0(x) == IF x > 0 THEN x ELSE 0

\* Math.floor in place of Math.ceil
CeilDiv_Floor(n, d) == n \div d

\* Math.ceil of a non-negative quotient n / d
CeilDiv(n, d) == (n + d - 1) \div d

\* a price that adds the discount instead of taking it off
calculateRentalPrice_DiscountAdded(startTime, endTime, pricePerHour, stratum) ==
  LET billingHours == CeilDiv(Max0(endTime - startTime), TicksPerHour)
      subtotal == billingHours * pricePerHour
      discountPercentage == calculateDiscountPercentage(stratum)
      discountAmount == (subtotal * discountPercentage) \div 100
  IN [hours |-> billingHours, baseRate |-> pricePerHour, subtotal |-> subtotal,
      discountPercentage |-> discountPercentage, discountAmount |-> discountAmount,
      totalAmount |-> subtotal + discountAmount]

\* times are in clock ticks, TicksPerHour ticks to the hour
calculateRentalPrice(startTime, endTime, pricePerHour, stratum) ==
  LET billingHours == CeilDiv(Max0(endTime - startTime), TicksPerHour)
      subtotal == billingHours * pricePerHour
      discountPercentage == calculateDiscountPercentage(stratum)
      discountAmount == (subtotal * discountPercentage) \div 100
  IN [hours |-> billingHours, baseRate |-> pricePerHour, subtotal |-> subtotal,
      discountPercentage |-> discountPercentage, discountAmount |-> discountAmount,
      totalAmount |-> subtotal - discountAmount]

\* a validateRentalTime that accepts endTime = startTime
validateRentalTime_AcceptsEmptyWindow(startTime, endTime, clock) ==
  IF endTime < startTime THEN "EndNotAfterStart"
  ELSE IF startTime > clock THEN "StartInFuture"
  ELSE "ok"

\* what validateRentalTime throws, or "ok"; clock is the `new Date()` it reads
validateRentalTime(startTime, endTime, clock) ==
  IF endTime <= startTime THEN "EndNotAfterStart"
  ELSE IF startTime > clock THEN "StartInFuture"
  ELSE "ok"

\* CreateBicycleDto / UpdateBicycleDto: @Min(0) rentalPricePerHour
Rates == {0} \cup {BikeRate[b] : b \in Bikes}
\* the times of a price evaluation span two hours
Times == 0..(2 * TicksPerHour)

\* an evaluation of PricingService: the arguments, and in a one-element
\* sequence what each function returned once it has been applied
NoCalc == [startTime |-> 0, endTime |-> 0, laterEnd |-> 0, pricePerHour |-> 0,
           stratum |-> 0, clock |-> 0,
           discount |-> <<>>, price |-> <<>>, laterPrice |-> <<>>, valid |-> <<>>]

\* --------------------------------------------------------------- call frame
NoCall == [op |-> "none", user |-> "", bike |-> "", rental |-> 0, event |-> "", log |-> 0]
NoLoc == [tier |-> 0, bike |-> "", user |-> "", start |-> 0, rate |-> 0,
          total |-> 0, discount |-> 0, endTime |-> 0, pid |-> 0, date |-> 0,
          max |-> 0]

\* the handler returns or throws: the worker holds the outcome for its caller
Finish(p, result) ==
  /\ pc' = [pc EXCEPT ![p] = "done"]
  /\ res' = [res EXCEPT ![p] = result]
  /\ loc' = [loc EXCEPT ![p] = NoLoc]

\* catch (error) { await session.abortTransaction(); throw error; }
Fail(p, err) ==
  /\ Finish(p, err)
  /\ txn' = TxnAbort(p)
  /\ UNCHANGED dbVars

Goto(p, label) ==
  /\ pc' = [pc EXCEPT ![p] = label]
  /\ UNCHANGED res

\* --------------------------------------------------------------- repositories
findActiveByUser(u) == {i \in 1..Len(rentals) : rentals[i].user = u /\ rentals[i].status = "active"}
findActiveByBicycle(b) == {i \in 1..Len(rentals) : rentals[i].bike = b /\ rentals[i].status = "active"}
RentalExists(i) == i \in 1..Len(rentals)
BikeExists(b) == b \in Bikes /\ bicycles[b].exists
LogExists(m) == m \in 1..Len(logs)

\* Bicycle.findByIdAndUpdate(id, { status }): no document, no change
updateStatus(b, s) ==
  IF BikeExists(b) THEN [bicycles EXCEPT ![b].status = s] ELSE bicycles

\* a write issued without a session waits while an open transaction holds the document
Locked(b) == \E q \in Procs : txn[q].open /\ b \in txn[q].wset.bikes

\* a write issued without a session is newer than the snapshot of every open transaction
TxnTouch(d) ==
  [q \in Procs |->
     IF txn[q].open THEN [txn[q] EXCEPT !.stale = DocsUnion(txn[q].stale, d)] ELSE txn[q]]

\* ------------------------------------------------------------------ Init
\* bicycles are created available, events with currentParticipants: 0 and a future date
InitWith(cap, tiers) ==
  /\ now = 0
  /\ users = [u \in Users |-> [tier |-> tiers[u]]]
  /\ bicycles = [b \in Bikes |-> [exists |-> TRUE, status |-> "available", rate |-> BikeRate[b]]]
  /\ rentals = <<>>
  /\ payments = <<>>
  /\ events = [e \in Events |-> [maxParticipants |-> cap, currentParticipants |-> 0,
                                  eventDate |-> MaxClock]]
  /\ participants = {}
  /\ nextPid = 1
  /\ logs = <<>>
  /\ pc = [p \in Procs |-> "idle"]
  /\ call = [p \in Procs |-> NoCall]
  /\ loc = [p \in Procs |-> NoLoc]
  /\ txn = [p \in Procs |-> NoTxn]
  /\ res = [p \in Procs |-> "none"]
  /\ hist = <<>>
  /\ calc = NoCalc

InitCap(cap) == InitWith(cap, UserTier)

Init == InitCap(1)

\* the rider u1 may have any socioeconomicStratum, or none
TierInit == \E t \in Tiers : InitWith(1, [UserTier EXCEPT !["u1"] = t])

EventInit == \E cap \in Capacities : InitCap(cap)

\* the evaluation clock (new Date()) advances
Tick ==
  /\ now < MaxClock
  /\ now' = now + 1
  /\ UNCHANGED <<dbVars, pc, call, loc, txn, res, hist, calc>>

\* ------------------------------------------------ RentalService.rentBicycle
\* a start-rental request arrives at an idle worker, which runs
\* userRepository.findById(userId)
CallRent(p, u, b) ==
  /\ pc[p] = "idle"
  /\ Len(rentals) + Cardinality({q \in Procs : call[q].op = "rent" /\ pc[q] # "done"}) < MaxRentals
  /\ pc' = [pc EXCEPT ![p] = "rb_active"]
  /\ call' = [call EXCEPT ![p] = [NoCall EXCEPT !.op = "rent", !.user = u, !.bike = b]]
  /\ loc' = [loc EXCEPT ![p].tier = users[u].tier]
  /\ res' = [res EXCEPT ![p] = "pending"]
  /\ UNCHANGED <<now, hist, calc, dbVars, txn>>

\* a start-rental that looks the bicycle up before the rider's active rental
RbActive_BicycleFirst(p) ==
  /\ pc[p] = "rb_active"
  /\ IF ~BikeExists(call[p].bike)
     THEN Fail(p, "BicycleNotFound")
     ELSE IF findActiveByUser(call[p].user) # {}
     THEN Fail(p, "RiderAlreadyRenting")
     ELSE Goto(p, "rb_bike") /\ UNCHANGED <<dbVars, loc, txn>>
  /\ UNCHANGED <<now, hist, calc, call>>

\* rentalRepository.findActiveByUser(userId)
RbActive(p) ==
  /\ pc[p] = "rb_active"
  /\ IF findActiveByUser(call[p].user) # {}
     THEN Fail(p, "RiderAlreadyRenting")
     ELSE Goto(p, "rb_bike") /\ UNCHANGED <<dbVars, loc, txn>>
  /\ UNCHANGED <<now, hist, calc, call>>

\* rentBicycle with a status check that lets a bicycle in maintenance through
RbBike_MaintenanceRentable(p) ==
  /\ pc[p] = "rb_bike"
  /\ IF ~BikeExists(call[p].bike)
     THEN Fail(p, "BicycleNotFound")
     ELSE IF bicycles[call[p].bike].status \notin {"available", "maintenance"}
     THEN Fail(p, "BicycleNotAvailable")
     ELSE /\ loc' = [loc EXCEPT ![p].rate = bicycles[call[p].bike].rate]
          /\ Goto(p, "rb_create")
          /\ UNCHANGED <<dbVars, txn>>
  /\ UNCHANGED <<now, hist, calc, call>>

\* bicycleRepository.findById(dto.bicycleId) and the status check
RbBike(p) ==
  /\ pc[p] = "rb_bike"
  /\ IF ~BikeExists(call[p].bike)
     THEN Fail(p, "BicycleNotFound")
     ELSE IF bicycles[call[p].bike].status # "available"
     THEN Fail(p, "BicycleNotAvailable")
     ELSE /\ loc' = [loc EXCEPT ![p].rate = bicycles[call[p].bike].rate]
          /\ Goto(p, "rb_create")
          /\ UNCHANGED <<dbVars, txn>>
  /\ UNCHANGED <<now, hist, calc, call>>

\* rentalSchema.discountPercentage: min 0, max 1
RentalValid(discountPercentage) == discountPercentage >= 0 /\ discountPercentage <= 1

\* rentalRepository.create({...}, session): the first operation of the transaction
RbCreate(p) ==
  /\ pc[p] = "rb_create"
  /\ IF ~RentalValid(calculateDiscountPercentage(loc[p].tier))
     THEN Fail(p, "ValidationError")
     ELSE /\ loc' = [loc EXCEPT ![p].start = now]
          /\ txn' = TxnWrite(p, NoDocs)
          /\ Goto(p, "rb_status")
          /\ UNCHANGED dbVars
  /\ UNCHANGED <<now, hist, calc, call>>

NewRental(p) ==
  [user |-> call[p].user, bike |-> call[p].bike, start |-> loc[p].start, end |-> -1,
   status |-> "active", baseRate |-> loc[p].rate,
   discountPercentage |-> calculateDiscountPercentage(loc[p].tier),
   discountAmount |-> 0, totalAmount |-> -1]

\* rentBicycle with rentalRepository.create() called without the session: the
\* rental stays when the status update fails
RbStatus_CreateOutsideSession(p) ==
  /\ pc[p] = "rb_status"
  /\ IF ConflictBike(p, call[p].bike)
     THEN /\ Finish(p, "WriteConflict")
          /\ txn' = TxnAbort(p)
          /\ rentals' = Append(rentals, NewRental(p))
          /\ UNCHANGED <<users, bicycles, payments, events, participants, nextPid, logs>>
     ELSE /\ txn' = TxnWrite(p, [NoDocs EXCEPT !.bikes = {call[p].bike}])
          /\ Goto(p, "rb_commit")
          /\ UNCHANGED <<dbVars, loc>>
  /\ UNCHANGED <<now, hist, calc, call>>

\* bicycleRepository.updateStatus(dto.bicycleId, 'rented', session)
RbStatus(p) ==
  /\ pc[p] = "rb_status"
  /\ IF ConflictBike(p, call[p].bike)
     THEN Fail(p, "WriteConflict")
     ELSE /\ txn' = TxnWrite(p, [NoDocs EXCEPT !.bikes = {call[p].bike}])
          /\ Goto(p, "rb_commit")
          /\ UNCHANGED <<dbVars, loc>>
  /\ UNCHANGED <<now, hist, calc, call>>

\* session.commitTransaction(): the rental and the bicycle status appear together
RbCommit(p) ==
  /\ pc[p] = "rb_commit"
  /\ rentals' = Append(rentals, NewRental(p))
  /\ bicycles' = updateStatus(call[p].bike, "rented")
  /\ txn' = TxnCommit(p)
  /\ Finish(p, "ok")
  /\ UNCHANGED <<now, hist, calc, logs, users, payments, events, participants, nextPid, call>>

\* ---------------------------------------------- RentalService.returnBicycle
\* a return that prices with the bicycle's current rentalPricePerHour
CallReturn_BicycleRate(p, i) ==
  /\ pc[p] = "idle"
  /\ call' = [call EXCEPT ![p] = [NoCall EXCEPT !.op = "return", !.rental = i]]
  /\ IF ~RentalExists(i)
     THEN Fail(p, "RentalNotFound")
     ELSE IF rentals[i].status # "active"
     THEN Fail(p, "RentalNotActive")
     ELSE IF ~BikeExists(rentals[i].bike)
     THEN Fail(p, "TypeError")
     ELSE /\ loc' = [loc EXCEPT ![p].bike = rentals[i].bike,
                                ![p].user = rentals[i].user,
                                ![p].start = rentals[i].start,
                                ![p].rate = bicycles[rentals[i].bike].rate]
          /\ pc' = [pc EXCEPT ![p] = "rt_bike"]
          /\ res' = [res EXCEPT ![p] = "pending"]
          /\ UNCHANGED <<dbVars, txn>>
  /\ UNCHANGED <<now, hist, calc>>

\* a return request arrives at an idle worker, which runs
\* rentalRepository.findById(rentalId) and checks the status it read
CallReturn(p, i) ==
  /\ pc[p] = "idle"
  /\ call' = [call EXCEPT ![p] = [NoCall EXCEPT !.op = "return", !.rental = i]]
  /\ IF ~RentalExists(i)
     THEN Fail(p, "RentalNotFound")
     ELSE IF rentals[i].status # "active"
     THEN Fail(p, "RentalNotActive")
     ELSE IF ~BikeExists(rentals[i].bike)
     THEN Fail(p, "TypeError")
     ELSE /\ loc' = [loc EXCEPT ![p].bike = rentals[i].bike,
                                ![p].user = rentals[i].user,
                                ![p].start = rentals[i].start,
                                ![p].rate = rentals[i].baseRate]
          /\ pc' = [pc EXCEPT ![p] = "rt_bike"]
          /\ res' = [res EXCEPT ![p] = "pending"]
          /\ UNCHANGED <<dbVars, txn>>
  /\ UNCHANGED <<now, hist, calc>>

\* bicycleRepository.findById(rental.bicycleId)
RtBike(p) ==
  /\ pc[p] = "rt_bike"
  /\ IF ~BikeExists(loc[p].bike)
     THEN Fail(p, "BicycleNotFound")
     ELSE Goto(p, "rt_user") /\ UNCHANGED <<dbVars, loc, txn>>
  /\ UNCHANGED <<now, hist, calc, call>>

\* userRepository.findById(rental.userId)
RtUser(p) ==
  /\ pc[p] = "rt_user"
  /\ loc' = [loc EXCEPT ![p].tier = users[loc[p].user].tier]
  /\ Goto(p, "rt_update")
  /\ UNCHANGED <<now, hist, calc, dbVars, call, txn>>

\* returnBicycle pricing with the discountPercentage stored at start instead of
\* the stratum read at return
RtUpdate_StoredPercentage(p) ==
  /\ pc[p] = "rt_update"
  /\ IF ConflictRental(p, call[p].rental)
     THEN Fail(p, "WriteConflict")
     ELSE LET pricing == calculateRentalPrice(loc[p].start, now, loc[p].rate, loc[p].tier)
              stored == (pricing.subtotal * rentals[call[p].rental].discountPercentage) \div 100
          IN /\ loc' = [loc EXCEPT ![p].endTime = now,
                                   ![p].discount = stored,
                                   ![p].total = pricing.subtotal - stored]
             /\ txn' = TxnWrite(p, [NoDocs EXCEPT !.rentals = {call[p].rental}])
             /\ Goto(p, "rt_status")
             /\ UNCHANGED dbVars
  /\ UNCHANGED <<now, hist, calc, call>>

\* endTime = new Date(); calculateRentalPrice(...); rentalRepository.update(..., session);
\* paymentRepository.create(..., session) only adds a fresh document to the transaction
RtUpdate(p) ==
  /\ pc[p] = "rt_update"
  /\ IF ConflictRental(p, call[p].rental)
     THEN Fail(p, "WriteConflict")
     ELSE LET pricing == calculateRentalPrice(loc[p].start, now, loc[p].rate, loc[p].tier)
          IN /\ loc' = [loc EXCEPT ![p].endTime = now,
                                   ![p].discount = pricing.discountAmount,
                                   ![p].total = pricing.totalAmount]
             /\ txn' = TxnWrite(p, [NoDocs EXCEPT !.rentals = {call[p].rental}])
             /\ Goto(p, "rt_status")
             /\ UNCHANGED dbVars
  /\ UNCHANGED <<now, hist, calc, call>>

\* bicycleRepository.updateStatus(rental.bicycleId, 'available', session)
RtStatus(p) ==
  /\ pc[p] = "rt_status"
  /\ IF ConflictBike(p, loc[p].bike)
     THEN Fail(p, "WriteConflict")
     ELSE /\ txn' = TxnWrite(p, [NoDocs EXCEPT !.bikes = {loc[p].bike}])
          /\ Goto(p, "rt_commit")
          /\ UNCHANGED <<dbVars, loc>>
  /\ UNCHANGED <<now, hist, calc, call>>

\* a commit of returnBicycle that lost the payment
RtCommit_NoPayment(p) ==
  /\ pc[p] = "rt_commit"
  /\ rentals' = [rentals EXCEPT ![call[p].rental].end = loc[p].endTime,
                                ![call[p].rental].status = "completed",
                                ![call[p].rental].discountAmount = loc[p].discount,
                                ![call[p].rental].totalAmount = loc[p].total]
  /\ bicycles' = updateStatus(loc[p].bike, "available")
  /\ txn' = TxnCommit(p)
  /\ Finish(p, "ok")
  /\ UNCHANGED <<now, hist, calc, logs, users, payments, events, participants, nextPid, call>>

\* session.commitTransaction(): the rental, the payment and the bicycle status
\* appear together
RtCommit(p) ==
  /\ pc[p] = "rt_commit"
  /\ rentals' = [rentals EXCEPT ![call[p].rental].end = loc[p].endTime,
                                ![call[p].rental].status = "completed",
                                ![call[p].rental].discountAmount = loc[p].discount,
                                ![call[p].rental].totalAmount = loc[p].total]
  /\ payments' = Append(payments, [rental |-> call[p].rental, amount |-> loc[p].total,
                                   status |-> "completed"])
  /\ bicycles' = updateStatus(loc[p].bike, "available")
  /\ txn' = TxnCommit(p)
  /\ Finish(p, "ok")
  /\ UNCHANGED <<now, hist, calc, logs, users, events, participants, nextPid, call>>

\* ----------------------------------------------- RentalService.cancelRental
\* .populate('bicycleId'): the reference of a deleted bicycle reads as null, and
\* rental.bicycleId.toString() then throws
populate(b) == IF BikeExists(b) THEN b ELSE NoBike

\* cancelRental without the `rental.status !== 'active'` check
CallCancel_NoStatusCheck(p, i) ==
  /\ pc[p] = "idle"
  /\ call' = [call EXCEPT ![p] = [NoCall EXCEPT !.op = "cancel", !.rental = i]]
  /\ IF ~RentalExists(i)
     THEN Fail(p, "RentalNotFound")
     ELSE /\ loc' = [loc EXCEPT ![p].bike = populate(rentals[i].bike)]
          /\ pc' = [pc EXCEPT ![p] = "cn_update"]
          /\ res' = [res EXCEPT ![p] = "pending"]
          /\ UNCHANGED <<dbVars, txn>>
  /\ UNCHANGED <<now, hist, calc>>

\* a cancel request arrives at an idle worker, which runs
\* rentalRepository.findById(rentalId) and checks the status it read
CallCancel(p, i) ==
  /\ pc[p] = "idle"
  /\ call' = [call EXCEPT ![p] = [NoCall EXCEPT !.op = "cancel", !.rental = i]]
  /\ IF ~RentalExists(i)
     THEN Fail(p, "RentalNotFound")
     ELSE IF rentals[i].status # "active"
     THEN Fail(p, "RentalNotActive")
     ELSE /\ loc' = [loc EXCEPT ![p].bike = populate(rentals[i].bike)]
          /\ pc' = [pc EXCEPT ![p] = "cn_update"]
          /\ res' = [res EXCEPT ![p] = "pending"]
          /\ UNCHANGED <<dbVars, txn>>
  /\ UNCHANGED <<now, hist, calc>>

\* rentalRepository.update(rentalId, {status: 'cancelled', endTime: new Date()}, session)
CnUpdate(p) ==
  /\ pc[p] = "cn_update"
  /\ IF ConflictRental(p, call[p].rental)
     THEN Fail(p, "WriteConflict")
     ELSE /\ loc' = [loc EXCEPT ![p].endTime = now]
          /\ txn' = TxnWrite(p, [NoDocs EXCEPT !.rentals = {call[p].rental}])
          /\ Goto(p, "cn_status")
          /\ UNCHANGED dbVars
  /\ UNCHANGED <<now, hist, calc, call>>

\* bicycleRepository.updateStatus(rental.bicycleId, 'available', session)
CnStatus(p) ==
  /\ pc[p] = "cn_status"
  /\ IF loc[p].bike = NoBike
     THEN Fail(p, "TypeError")
     ELSE IF ConflictBike(p, loc[p].bike)
     THEN Fail(p, "WriteConflict")
     ELSE /\ txn' = TxnWrite(p, [NoDocs EXCEPT !.bikes = {loc[p].bike}])
          /\ Goto(p, "cn_commit")
          /\ UNCHANGED <<dbVars, loc>>
  /\ UNCHANGED <<now, hist, calc, call>>

\* a commit of cancelRental that lost the bicycle status update
CnCommit_BicycleStaysRented(p) ==
  /\ pc[p] = "cn_commit"
  /\ rentals' = [rentals EXCEPT ![call[p].rental].end = loc[p].endTime,
                                ![call[p].rental].status = "cancelled"]
  /\ txn' = TxnCommit(p)
  /\ Finish(p, "ok")
  /\ UNCHANGED <<now, hist, calc, logs, users, bicycles, payments, events, participants, nextPid, call>>

\* session.commitTransaction(): the rental and the bicycle status appear together
CnCommit(p) ==
  /\ pc[p] = "cn_commit"
  /\ rentals' = [rentals EXCEPT ![call[p].rental].end = loc[p].endTime,
                                ![call[p].rental].status = "cancelled"]
  /\ bicycles' = updateStatus(loc[p].bike, "available")
  /\ txn' = TxnCommit(p)
  /\ Finish(p, "ok")
  /\ UNCHANGED <<now, hist, calc, logs, users, payments, events, participants, nextPid, call>>

\* ---------------------------------------------- EventService.registerToEvent
findByEventAndUser(e, u) == {x \in participants : x.event = e /\ x.user = u}
ParticipantById(id) == {x \in participants : x.id = id}
EventExists(e) == e \in Events

\* a register request arrives at an idle worker, which runs
\* userRepository.findById(userId)
CallRegister(p, u, e) ==
  /\ pc[p] = "idle"
  /\ nextPid + Cardinality({q \in Procs : call[q].op = "register" /\ pc[q] # "done"}) <= MaxPid
  /\ pc' = [pc EXCEPT ![p] = "rg_event"]
  /\ call' = [call EXCEPT ![p] = [NoCall EXCEPT !.op = "register", !.user = u, !.event = e]]
  /\ res' = [res EXCEPT ![p] = "pending"]
  /\ UNCHANGED <<now, hist, calc, dbVars, loc, txn>>

\* eventRepository.findById(dto.eventId), the date check and the capacity check
RgEvent(p) ==
  /\ pc[p] = "rg_event"
  /\ IF ~EventExists(call[p].event)
     THEN Fail(p, "EventNotFound")
     ELSE IF events[call[p].event].eventDate <= now
     THEN Fail(p, "EventInPast")
     ELSE IF /\ events[call[p].event].maxParticipants # 0
             /\ events[call[p].event].currentParticipants >= events[call[p].event].maxParticipants
     THEN Fail(p, "EventFull")
     ELSE Goto(p, "rg_existing") /\ UNCHANGED <<dbVars, loc, txn>>
  /\ UNCHANGED <<now, hist, calc, call>>

\* eventParticipantRepository.findByEventAndUser(dto.eventId, userId)
RgExisting(p) ==
  /\ pc[p] = "rg_existing"
  /\ IF findByEventAndUser(call[p].event, call[p].user) # {}
     THEN Fail(p, "AlreadyRegistered")
     ELSE Goto(p, "rg_create") /\ UNCHANGED <<dbVars, loc, txn>>
  /\ UNCHANGED <<now, hist, calc, call>>

\* create() on a collection without the unique index { eventId, userId }
RgCreate_NoUniqueIndex(p) ==
  /\ pc[p] = "rg_create"
  /\ txn' = TxnWrite(p, NoDocs)
  /\ Goto(p, "rg_inc")
  /\ UNCHANGED <<dbVars, loc>>
  /\ UNCHANGED <<now, hist, calc, call>>

\* eventParticipantRepository.create({...}, session): the first operation of the
\* transaction; the unique index { eventId, userId } rejects a second entry
RgCreate(p) ==
  /\ pc[p] = "rg_create"
  /\ IF ConflictKey(p, <<call[p].event, call[p].user>>)
     THEN Fail(p, "WriteConflict")
     ELSE IF findByEventAndUser(call[p].event, call[p].user) # {}
     THEN Fail(p, "DuplicateKey")
     ELSE /\ txn' = TxnWrite(p, [NoDocs EXCEPT !.keys = {<<call[p].event, call[p].user>>}])
          /\ Goto(p, "rg_inc")
          /\ UNCHANGED <<dbVars, loc>>
  /\ UNCHANGED <<now, hist, calc, call>>

\* eventRepository.incrementParticipants(dto.eventId, session)
RgInc(p) ==
  /\ pc[p] = "rg_inc"
  /\ IF ConflictEvent(p, call[p].event)
     THEN Fail(p, "WriteConflict")
     ELSE /\ txn' = TxnWrite(p, [NoDocs EXCEPT !.events = {call[p].event}])
          /\ Goto(p, "rg_commit")
          /\ UNCHANGED <<dbVars, loc>>
  /\ UNCHANGED <<now, hist, calc, call>>

\* a commit of registerToEvent that lost the { $inc: +1 }
RgCommit_NoIncrement(p) ==
  /\ pc[p] = "rg_commit"
  /\ participants' = participants \cup
       {[id |-> nextPid, event |-> call[p].event, user |-> call[p].user, status |-> "registered"]}
  /\ nextPid' = nextPid + 1
  /\ txn' = TxnCommit(p)
  /\ Finish(p, "ok")
  /\ UNCHANGED <<now, hist, calc, logs, users, bicycles, rentals, payments, events, call>>

\* session.commitTransaction(): the participant and { $inc: +1 } appear together
RgCommit(p) ==
  /\ pc[p] = "rg_commit"
  /\ participants' = participants \cup
       {[id |-> nextPid, event |-> call[p].event, user |-> call[p].user, status |-> "registered"]}
  /\ nextPid' = nextPid + 1
  /\ events' = [events EXCEPT ![call[p].event].currentParticipants = @ + 1]
  /\ txn' = TxnCommit(p)
  /\ Finish(p, "ok")
  /\ UNCHANGED <<now, hist, calc, logs, users, bicycles, rentals, payments, call>>

\* -------------------------------------------- EventService.cancelRegistration
\* an unregister request arrives at an idle worker, which runs
\* eventRepository.findById(eventId)
CallUnregister(p, u, e) ==
  /\ pc[p] = "idle"
  /\ call' = [call EXCEPT ![p] = [NoCall EXCEPT !.op = "unregister", !.user = u, !.event = e]]
  /\ IF ~EventExists(e)
     THEN Fail(p, "EventNotFound")
     ELSE /\ loc' = [loc EXCEPT ![p].date = events[e].eventDate]
          /\ pc' = [pc EXCEPT ![p] = "un_part"]
          /\ res' = [res EXCEPT ![p] = "pending"]
          /\ UNCHANGED <<dbVars, txn>>
  /\ UNCHANGED <<now, hist, calc>>

\* eventParticipantRepository.findByEventAndUser(eventId, userId), then the date check
UnPart(p) ==
  /\ pc[p] = "un_part"
  /\ IF findByEventAndUser(call[p].event, call[p].user) = {}
     THEN Fail(p, "NotRegistered")
     ELSE IF loc[p].date <= now
     THEN Fail(p, "EventInPast")
     ELSE /\ \E x \in findByEventAndUser(call[p].event, call[p].user) :
               loc' = [loc EXCEPT ![p].pid = x.id]
          /\ Goto(p, "un_delete")
          /\ UNCHANGED <<dbVars, txn>>
  /\ UNCHANGED <<now, hist, calc, call>>

\* cancelRegistration without the `if (!deletedParticipant)` check
UnDelete_NoNullCheck(p) ==
  /\ pc[p] = "un_delete"
  /\ IF ConflictPart(p, loc[p].pid) \/ ConflictKey(p, <<call[p].event, call[p].user>>)
     THEN Fail(p, "WriteConflict")
     ELSE /\ txn' = TxnWrite(p, [NoDocs EXCEPT !.parts = {loc[p].pid},
                                              !.keys = {<<call[p].event, call[p].user>>}])
          /\ Goto(p, "un_dec")
          /\ UNCHANGED <<dbVars, loc>>
  /\ UNCHANGED <<now, hist, calc, call>>

\* eventParticipantRepository.delete(participant._id, session): the first
\* operation of the transaction; null when the document is gone
UnDelete(p) ==
  /\ pc[p] = "un_delete"
  /\ IF ConflictPart(p, loc[p].pid) \/ ConflictKey(p, <<call[p].event, call[p].user>>)
     THEN Fail(p, "WriteConflict")
     ELSE IF ParticipantById(loc[p].pid) = {}
     THEN Fail(p, "CancelFailed")
     ELSE /\ txn' = TxnWrite(p, [NoDocs EXCEPT !.parts = {loc[p].pid},
                                              !.keys = {<<call[p].event, call[p].user>>}])
          /\ Goto(p, "un_dec")
          /\ UNCHANGED <<dbVars, loc>>
  /\ UNCHANGED <<now, hist, calc, call>>

\* eventRepository.decrementParticipants(eventId, session)
UnDec(p) ==
  /\ pc[p] = "un_dec"
  /\ IF ConflictEvent(p, call[p].event)
     THEN Fail(p, "WriteConflict")
     ELSE /\ txn' = TxnWrite(p, [NoDocs EXCEPT !.events = {call[p].event}])
          /\ Goto(p, "un_commit")
          /\ UNCHANGED <<dbVars, loc>>
  /\ UNCHANGED <<now, hist, calc, call>>

\* a commit of cancelRegistration that lost the { $inc: -1 }
UnCommit_NoDecrement(p) ==
  /\ pc[p] = "un_commit"
  /\ participants' = participants \ ParticipantById(loc[p].pid)
  /\ txn' = TxnCommit(p)
  /\ Finish(p, "ok")
  /\ UNCHANGED <<now, hist, calc, logs, users, bicycles, rentals, payments, events, nextPid, call>>

\* session.commitTransaction(): the deletion and { $inc: -1 } appear together
UnCommit(p) ==
  /\ pc[p] = "un_commit"
  /\ participants' = participants \ ParticipantById(loc[p].pid)
  /\ events' = [events EXCEPT ![call[p].event].currentParticipants = @ - 1]
  /\ txn' = TxnCommit(p)
  /\ Finish(p, "ok")
  /\ UNCHANGED <<now, hist, calc, logs, users, bicycles, rentals, payments, nextPid, call>>

\* ------------------------------------------- MaintenanceLogService.create
\* a schedule-maintenance request arrives at an idle worker, which runs
\* bicycleRepository.findById(dto.bicycleId)
CallSchedule(p, b) ==
  /\ pc[p] = "idle"
  /\ Len(logs) + Cardinality({q \in Procs : call[q].op = "schedule" /\ pc[q] # "done"}) < MaxLogs
  /\ call' = [call EXCEPT ![p] = [NoCall EXCEPT !.op = "schedule", !.bike = b]]
  /\ IF ~BikeExists(b)
     THEN Fail(p, "BicycleNotFound")
     ELSE /\ pc' = [pc EXCEPT ![p] = "mt_create"]
          /\ res' = [res EXCEPT ![p] = "pending"]
          /\ UNCHANGED <<dbVars, loc, txn>>
  /\ UNCHANGED <<now, hist, calc>>

\* maintenanceLogRepository.create({...}, session): the first operation of the transaction
MtCreate(p) ==
  /\ pc[p] = "mt_create"
  /\ txn' = TxnWrite(p, NoDocs)
  /\ Goto(p, "mt_status")
  /\ UNCHANGED <<now, hist, calc, dbVars, call, loc>>

\* a status update that waits until the bicycle can be written instead of failing
MtStatus_WaitsOnConflict(p) ==
  /\ pc[p] = "mt_status"
  /\ ~ConflictBike(p, call[p].bike)
  /\ txn' = TxnWrite(p, [NoDocs EXCEPT !.bikes = {call[p].bike}])
  /\ Goto(p, "mt_commit")
  /\ UNCHANGED <<dbVars, loc>>
  /\ UNCHANGED <<now, hist, calc, call>>

\* bicycleRepository.updateStatus(dto.bicycleId, 'maintenance', session)
MtStatus(p) ==
  /\ pc[p] = "mt_status"
  /\ IF ConflictBike(p, call[p].bike)
     THEN Fail(p, "WriteConflict")
     ELSE /\ txn' = TxnWrite(p, [NoDocs EXCEPT !.bikes = {call[p].bike}])
          /\ Goto(p, "mt_commit")
          /\ UNCHANGED <<dbVars, loc>>
  /\ UNCHANGED <<now, hist, calc, call>>

\* session.commitTransaction(): the record and the bicycle status appear together
MtCommit(p) ==
  /\ pc[p] = "mt_commit"
  /\ logs' = Append(logs, [bike |-> call[p].bike])
  /\ bicycles' = updateStatus(call[p].bike, "maintenance")
  /\ txn' = TxnCommit(p)
  /\ Finish(p, "ok")
  /\ UNCHANGED <<now, hist, calc, users, rentals, payments, events, participants, nextPid, call>>

\* ------------------------------ MaintenanceLogService.completeMaintenance
\* a complete-maintenance request arrives at an idle worker, which runs
\* maintenanceLogRepository.findById(id); .populate('bicycleId') of a deleted
\* bicycle is null and maintenanceLog.bicycleId.toString() then throws
CallComplete(p, m) ==
  /\ pc[p] = "idle"
  /\ call' = [call EXCEPT ![p] = [NoCall EXCEPT !.op = "complete", !.log = m]]
  /\ IF ~LogExists(m)
     THEN Fail(p, "MaintenanceNotFound")
     ELSE IF ~BikeExists(logs[m].bike)
     THEN Fail(p, "TypeError")
     ELSE /\ loc' = [loc EXCEPT ![p].bike = logs[m].bike]
          /\ pc' = [pc EXCEPT ![p] = "mc_status"]
          /\ res' = [res EXCEPT ![p] = "pending"]
          /\ UNCHANGED <<dbVars, txn>>
  /\ UNCHANGED <<now, hist, calc>>

\* bicycleRepository.updateStatus(maintenanceLog.bicycleId, 'available', session):
\* the first operation of the transaction
McStatus(p) ==
  /\ pc[p] = "mc_status"
  /\ IF ConflictBike(p, loc[p].bike)
     THEN Fail(p, "WriteConflict")
     ELSE /\ txn' = TxnWrite(p, [NoDocs EXCEPT !.bikes = {loc[p].bike}])
          /\ Goto(p, "mc_commit")
          /\ UNCHANGED <<dbVars, loc>>
  /\ UNCHANGED <<now, hist, calc, call>>

McCommit(p) ==
  /\ pc[p] = "mc_commit"
  /\ bicycles' = updateStatus(loc[p].bike, "available")
  /\ txn' = TxnCommit(p)
  /\ Finish(p, "ok")
  /\ UNCHANGED <<now, hist, calc, logs, users, rentals, payments, events, participants, nextPid, call>>

\* -------------------------------------------------- BicycleService (admin)
\* BicycleService.updateStatus(id, status): findById, then updateStatus without a
\* session; the write is a single document update
CallUpdateStatus(p, b, s) ==
  /\ pc[p] = "idle"
  /\ ~Locked(b)
  /\ call' = [call EXCEPT ![p] = [NoCall EXCEPT !.op = "updateStatus", !.bike = b]]
  /\ IF ~BikeExists(b)
     THEN Fail(p, "BicycleNotFound")
     ELSE /\ bicycles' = updateStatus(b, s)
          /\ txn' = TxnTouch([NoDocs EXCEPT !.bikes = {b}])
          /\ Finish(p, "ok")
          /\ UNCHANGED <<users, rentals, payments, events, participants, nextPid, logs>>
  /\ UNCHANGED <<now, hist, calc>>

\* BicycleService.update(id, { rentalPricePerHour }): findById, then
\* findByIdAndUpdate without a session
CallUpdate(p, b, r) ==
  /\ pc[p] = "idle"
  /\ ~Locked(b)
  /\ r \in Rates /\ r # bicycles[b].rate
  /\ call' = [call EXCEPT ![p] = [NoCall EXCEPT !.op = "update", !.bike = b]]
  /\ IF ~BikeExists(b)
     THEN Fail(p, "BicycleNotFound")
     ELSE /\ bicycles' = [bicycles EXCEPT ![b].rate = r]
          /\ txn' = TxnTouch([NoDocs EXCEPT !.bikes = {b}])
          /\ Finish(p, "ok")
          /\ UNCHANGED <<users, rentals, payments, events, participants, nextPid, logs>>
  /\ UNCHANGED <<now, hist, calc>>

\* BicycleService.delete(id): findById and the `status === 'rented'` check
CallDelete(p, b) ==
  /\ pc[p] = "idle"
  /\ call' = [call EXCEPT ![p] = [NoCall EXCEPT !.op = "delete", !.bike = b]]
  /\ IF ~BikeExists(b)
     THEN Fail(p, "BicycleNotFound")
     ELSE IF bicycles[b].status = "rented"
     THEN Fail(p, "BicycleRented")
     ELSE /\ pc' = [pc EXCEPT ![p] = "dl_delete"]
          /\ res' = [res EXCEPT ![p] = "pending"]
          /\ UNCHANGED <<dbVars, loc, txn>>
  /\ UNCHANGED <<now, hist, calc>>

\* bicycleRepository.delete(id), issued without a session
DlDelete(p) ==
  /\ pc[p] = "dl_delete"
  /\ ~Locked(call[p].bike)
  /\ IF ~BikeExists(call[p].bike)
     THEN Fail(p, "DeleteFailed")
     ELSE /\ bicycles' = [bicycles EXCEPT ![call[p].bike].exists = FALSE]
          /\ txn' = TxnTouch([NoDocs EXCEPT !.bikes = {call[p].bike}])
          /\ Finish(p, "ok")
          /\ UNCHANGED <<users, rentals, payments, events, participants, nextPid, logs>>
  /\ UNCHANGED <<now, hist, calc, call>>

\* ---------------------------------------------------------- UserRepository
\* UserRepository.update(id, { socioeconomicStratum }) with runValidators: the
\* rider's stratum is changed to a value from 1 to 6
UserUpdate(u, t) ==
  /\ t \in Tiers \ {0}
  /\ users[u].tier # t
  /\ users' = [users EXCEPT ![u].tier = t]
  /\ UNCHANGED <<now, hist, calc, bicycles, rentals, payments, events, participants, nextPid, logs,
                 pc, call, loc, txn, res>>

\* ------------------------------------------------------- EventService.update
\* an update request with dto.maxParticipants = m arrives at an idle worker, which
\* runs eventRepository.findById(id) and compares m with the currentParticipants
\* it read
CallUpdateEvent(p, e, m) ==
  /\ pc[p] = "idle"
  /\ m >= 1
  /\ call' = [call EXCEPT ![p] = [NoCall EXCEPT !.op = "updateEvent", !.event = e]]
  /\ IF ~EventExists(e)
     THEN Fail(p, "EventNotFound")
     ELSE IF m < events[e].currentParticipants
     THEN Fail(p, "CapacityBelowCount")
     ELSE /\ loc' = [loc EXCEPT ![p].max = m]
          /\ pc' = [pc EXCEPT ![p] = "eu_update"]
          /\ res' = [res EXCEPT ![p] = "pending"]
          /\ UNCHANGED <<dbVars, txn>>
  /\ UNCHANGED <<now, hist, calc>>

\* eventRepository.update(id, { maxParticipants }): findByIdAndUpdate without a
\* session, which waits for a transaction that holds the event
EuUpdate(p) ==
  /\ pc[p] = "eu_update"
  /\ \A q \in Procs : ~(txn[q].open /\ call[p].event \in txn[q].wset.events)
  /\ events' = [events EXCEPT ![call[p].event].maxParticipants = loc[p].max]
  /\ txn' = TxnTouch([NoDocs EXCEPT !.events = {call[p].event}])
  /\ Finish(p, "ok")
  /\ UNCHANGED <<users, bicycles, rentals, payments, participants, nextPid, logs>>
  /\ UNCHANGED <<now, hist, calc, call>>

\* ------------------------------------------------ EventService.markAttendance
\* a mark-attendance request arrives at an idle worker, which runs
\* eventRepository.findById(eventId)
CallMarkAttendance(p, u, e) ==
  /\ pc[p] = "idle"
  /\ call' = [call EXCEPT ![p] = [NoCall EXCEPT !.op = "attend", !.user = u, !.event = e]]
  /\ IF ~EventExists(e)
     THEN Fail(p, "EventNotFound")
     ELSE /\ pc' = [pc EXCEPT ![p] = "ma_part"]
          /\ res' = [res EXCEPT ![p] = "pending"]
          /\ UNCHANGED <<dbVars, loc, txn>>
  /\ UNCHANGED <<now, hist, calc>>

\* eventParticipantRepository.findByEventAndUser(eventId, userId)
MaPart(p) ==
  /\ pc[p] = "ma_part"
  /\ IF findByEventAndUser(call[p].event, call[p].user) = {}
     THEN Fail(p, "NotRegistered")
     ELSE /\ \E x \in findByEventAndUser(call[p].event, call[p].user) :
               loc' = [loc EXCEPT ![p].pid = x.id]
          /\ Goto(p, "ma_update")
          /\ UNCHANGED <<dbVars, txn>>
  /\ UNCHANGED <<now, hist, calc, call>>

\* an update that filters on the event only
MaUpdate_ByEventOnly(p) ==
  /\ pc[p] = "ma_update"
  /\ \A q \in Procs : ~(txn[q].open /\ loc[p].pid \in txn[q].wset.parts)
  /\ IF ParticipantById(loc[p].pid) = {}
     THEN Fail(p, "MarkAttendanceFailed")
     ELSE /\ participants' = {IF x.event = call[p].event
                               THEN [x EXCEPT !.status = "attended"] ELSE x : x \in participants}
          /\ txn' = TxnTouch([NoDocs EXCEPT !.parts = {loc[p].pid}])
          /\ Finish(p, "ok")
          /\ UNCHANGED <<users, bicycles, rentals, payments, events, nextPid, logs>>
  /\ UNCHANGED <<now, hist, calc, call>>

\* eventParticipantRepository.update(participant._id, { attendanceStatus: 'attended' }):
\* findByIdAndUpdate without a session, which waits for a transaction that holds
\* the document and returns null when the document is gone
MaUpdate(p) ==
  /\ pc[p] = "ma_update"
  /\ \A q \in Procs : ~(txn[q].open /\ loc[p].pid \in txn[q].wset.parts)
  /\ IF ParticipantById(loc[p].pid) = {}
     THEN Fail(p, "MarkAttendanceFailed")
     ELSE /\ participants' = {IF x.id = loc[p].pid
                               THEN [x EXCEPT !.status = "attended"] ELSE x : x \in participants}
          /\ txn' = TxnTouch([NoDocs EXCEPT !.parts = {loc[p].pid}])
          /\ Finish(p, "ok")
          /\ UNCHANGED <<users, bicycles, rentals, payments, events, nextPid, logs>>
  /\ UNCHANGED <<now, hist, calc, call>>

\* ------------------------------------------------------------ PricingService
\* calculateDiscountPercentage(socioeconomicStratum) is evaluated
ApplyDiscount ==
  /\ calc.discount = <<>>
  /\ calc' = [calc EXCEPT !.discount = <<calculateDiscountPercentage(calc.stratum)>>]
  /\ UNCHANGED <<now, hist, dbVars, pc, call, loc, txn, res>>

\* calculateRentalPrice(startTime, endTime, pricePerHour, socioeconomicStratum) is
\* evaluated, and once more for the later end time
ApplyPrice ==
  /\ calc.price = <<>>
  /\ calc' = [calc EXCEPT
                !.price = <<calculateRentalPrice(calc.startTime, calc.endTime,
                                                 calc.pricePerHour, calc.stratum)>>,
                !.laterPrice = <<calculateRentalPrice(calc.startTime, calc.laterEnd,
                                                      calc.pricePerHour, calc.stratum)>>]
  /\ UNCHANGED <<now, hist, dbVars, pc, call, loc, txn, res>>

\* validateRentalTime(startTime, endTime) is evaluated
ApplyValidate ==
  /\ calc.valid = <<>>
  /\ calc' = [calc EXCEPT !.valid = <<validateRentalTime(calc.startTime, calc.endTime, calc.clock)>>]
  /\ UNCHANGED <<now, hist, dbVars, pc, call, loc, txn, res>>

\* the response is delivered and the worker takes the next request
Respond(p) ==
  /\ pc[p] = "done"
  /\ pc' = [pc EXCEPT ![p] = "idle"]
  /\ call' = [call EXCEPT ![p] = NoCall]
  /\ res' = [res EXCEPT ![p] = "none"]
  /\ UNCHANGED <<now, hist, calc, dbVars, loc, txn>>

\* the response reaches a caller that issues its requests one after the other
\* and keeps what it saw: the outcome, the counters and whether the event is
\* still ahead
RespondLogged(p) ==
  /\ pc[p] = "done"
  /\ pc' = [pc EXCEPT ![p] = "idle"]
  /\ call' = [call EXCEPT ![p] = NoCall]
  /\ res' = [res EXCEPT ![p] = "none"]
  /\ hist' = Append(hist, [op |-> call[p].op, user |-> call[p].user, event |-> call[p].event,
                           res |-> res[p],
                           cps |-> [e \in Events |-> events[e].currentParticipants],
                           future |-> [e \in Events |-> events[e].eventDate > now]])
  /\ UNCHANGED <<now, dbVars, loc, txn, calc>>

\* the sequential caller issues at most MaxCalls requests
SeqCallRegister(u, e) == Len(hist) < MaxCalls /\ CallRegister("w1", u, e)
SeqCallUnregister(u, e) == Len(hist) < MaxCalls /\ CallUnregister("w1", u, e)

\* ---------------------------------------------------------- specifications
RentalNext ==
  \/ \E p \in Procs, u \in Users, b \in Bikes \cup {NoBike} : CallRent(p, u, b)
  \/ \E p \in Procs : RbActive(p)
  \/ \E p \in Procs : RbBike(p)
  \/ \E p \in Procs : RbCreate(p)
  \/ \E p \in Procs : RbStatus(p)
  \/ \E p \in Procs : RbCommit(p)
  \/ \E p \in Procs, i \in RentalIds : CallReturn(p, i)
  \/ \E p \in Procs : RtBike(p)
  \/ \E p \in Procs : RtUser(p)
  \/ \E p \in Procs : RtUpdate(p)
  \/ \E p \in Procs : RtStatus(p)
  \/ \E p \in Procs : RtCommit(p)
  \/ \E p \in Procs, i \in RentalIds : CallCancel(p, i)
  \/ \E p \in Procs : CnUpdate(p)
  \/ \E p \in Procs : CnStatus(p)
  \/ \E p \in Procs : CnCommit(p)
  \/ \E p \in Procs : Respond(p)

RentalSpec == Init /\ [][RentalNext]_vars

\* two workers competing for one rider and one bicycle
SingleBikeNext ==
  \/ \E p \in Procs : CallRent(p, "u1", "b1")
  \/ \E p \in Procs : RbActive(p)
  \/ \E p \in Procs : RbBike(p)
  \/ \E p \in Procs : RbCreate(p)
  \/ \E p \in Procs : RbStatus(p)
  \/ \E p \in Procs : RbCommit(p)
  \/ \E p \in Procs, i \in RentalIds : CallReturn(p, i)
  \/ \E p \in Procs : RtBike(p)
  \/ \E p \in Procs : RtUser(p)
  \/ \E p \in Procs : RtUpdate(p)
  \/ \E p \in Procs : RtStatus(p)
  \/ \E p \in Procs : RtCommit(p)
  \/ \E p \in Procs, i \in RentalIds : CallCancel(p, i)
  \/ \E p \in Procs : CnUpdate(p)
  \/ \E p \in Procs : CnStatus(p)
  \/ \E p \in Procs : CnCommit(p)
  \/ \E p \in Procs : Respond(p)

SingleBikeSpec == Init /\ [][SingleBikeNext]_vars

EventNext ==
  \/ Tick
  \/ \E p \in Procs, u \in Users, e \in Events \cup {NoEvent} : CallRegister(p, u, e)
  \/ \E p \in Procs : RgEvent(p)
  \/ \E p \in Procs : RgExisting(p)
  \/ \E p \in Procs : RgCreate(p)
  \/ \E p \in Procs : RgInc(p)
  \/ \E p \in Procs : RgCommit(p)
  \/ \E p \in Procs, u \in Users, e \in Events \cup {NoEvent} : CallUnregister(p, u, e)
  \/ \E p \in Procs : UnPart(p)
  \/ \E p \in Procs : UnDelete(p)
  \/ \E p \in Procs : UnDec(p)
  \/ \E p \in Procs : UnCommit(p)
  \/ \E p \in Procs : Respond(p)

EventSpec == EventInit /\ [][EventNext]_vars

\* one caller, one request at a time
EventSeqNext ==
  \/ Tick
  \/ \E u \in Users, e \in Events \cup {NoEvent} : SeqCallRegister(u, e)
  \/ RgEvent("w1")
  \/ RgExisting("w1")
  \/ RgCreate("w1")
  \/ RgInc("w1")
  \/ RgCommit("w1")
  \/ \E u \in Users, e \in Events \cup {NoEvent} : SeqCallUnregister(u, e)
  \/ UnPart("w1")
  \/ UnDelete("w1")
  \/ UnDec("w1")
  \/ UnCommit("w1")
  \/ RespondLogged("w1")

EventSeqSpec == EventInit /\ [][EventSeqNext]_vars

\* one caller, one request at a time, over the rental coordinator, the
\* maintenance coordinator and the bicycle administration
FleetSeqNext ==
  \/ \E u \in Users, b \in Bikes \cup {NoBike} : CallRent("w1", u, b)
  \/ RbActive("w1")
  \/ RbBike("w1")
  \/ RbCreate("w1")
  \/ RbStatus("w1")
  \/ RbCommit("w1")
  \/ \E i \in RentalIds : CallReturn("w1", i)
  \/ RtBike("w1")
  \/ RtUser("w1")
  \/ RtUpdate("w1")
  \/ RtStatus("w1")
  \/ RtCommit("w1")
  \/ \E i \in RentalIds : CallCancel("w1", i)
  \/ CnUpdate("w1")
  \/ CnStatus("w1")
  \/ CnCommit("w1")
  \/ \E b \in Bikes \cup {NoBike} : CallSchedule("w1", b)
  \/ MtCreate("w1")
  \/ MtStatus("w1")
  \/ MtCommit("w1")
  \/ \E m \in LogIds : CallComplete("w1", m)
  \/ McStatus("w1")
  \/ McCommit("w1")
  \/ \E b \in Bikes \cup {NoBike}, s \in Statuses : CallUpdateStatus("w1", b, s)
  \/ \E b \in Bikes \cup {NoBike} : CallDelete("w1", b)
  \/ DlDelete("w1")
  \/ Respond("w1")

FleetSeqSpec == Init /\ [][FleetSeqNext]_vars

\* one caller, one request at a time: riders of every tier start and return rentals
RentSeqNext ==
  \/ \E u \in Users, b \in Bikes \cup {NoBike} : CallRent("w1", u, b)
  \/ RbActive("w1")
  \/ RbBike("w1")
  \/ RbCreate("w1")
  \/ RbStatus("w1")
  \/ RbCommit("w1")
  \/ \E i \in RentalIds : CallReturn("w1", i)
  \/ RtBike("w1")
  \/ RtUser("w1")
  \/ RtUpdate("w1")
  \/ RtStatus("w1")
  \/ RtCommit("w1")
  \/ Respond("w1")

RentSeqSpec == TierInit /\ [][RentSeqNext]_vars

\* one caller, one request at a time, over the rental coordinator and the
\* maintenance coordinator
MaintSeqNext ==
  \/ \E u \in Users, b \in Bikes : CallRent("w1", u, b)
  \/ RbActive("w1")
  \/ RbBike("w1")
  \/ RbCreate("w1")
  \/ RbStatus("w1")
  \/ RbCommit("w1")
  \/ \E i \in RentalIds : CallReturn("w1", i)
  \/ RtBike("w1")
  \/ RtUser("w1")
  \/ RtUpdate("w1")
  \/ RtStatus("w1")
  \/ RtCommit("w1")
  \/ \E b \in Bikes \cup {NoBike} : CallSchedule("w1", b)
  \/ MtCreate("w1")
  \/ MtStatus("w1")
  \/ MtCommit("w1")
  \/ \E m \in LogIds : CallComplete("w1", m)
  \/ McStatus("w1")
  \/ McCommit("w1")
  \/ Respond("w1")

MaintSeqSpec == Init /\ [][MaintSeqNext]_vars

\* two workers starting and returning rentals of one rider and one bicycle
\* while the clock advances
TimedBikeNext ==
  \/ Tick
  \/ \E p \in Procs : CallRent(p, "u1", "b1")
  \/ \E p \in Procs : RbActive(p)
  \/ \E p \in Procs : RbBike(p)
  \/ \E p \in Procs : RbCreate(p)
  \/ \E p \in Procs : RbStatus(p)
  \/ \E p \in Procs : RbCommit(p)
  \/ \E p \in Procs, i \in RentalIds : CallReturn(p, i)
  \/ \E p \in Procs : RtBike(p)
  \/ \E p \in Procs : RtUser(p)
  \/ \E p \in Procs : RtUpdate(p)
  \/ \E p \in Procs : RtStatus(p)
  \/ \E p \in Procs : RtCommit(p)
  \/ \E p \in Procs : Respond(p)

TimedBikeSpec == Init /\ [][TimedBikeNext]_vars

\* the rental and maintenance coordinators write bicycles, rentals, payments and
\* maintenance records; the event coordinator writes events and participants.
\* The two groups share no document, so their interleavings are explored one
\* group at a time: a group starts a call only while the other has written nothing.
FleetOps == {"rent", "return", "cancel", "schedule", "complete"}
EventOps == {"register", "unregister"}
FleetUntouched ==
  rentals = <<>> /\ logs = <<>> /\ \A p \in Procs : call[p].op \notin FleetOps
EventsUntouched ==
  participants = {} /\ nextPid = 1 /\ \A p \in Procs : call[p].op \notin EventOps

\* two workers running the seven coordinator operations against one rider, one
\* bicycle and one event
CoordNext ==
  \/ \E p \in Procs : EventsUntouched /\ CallRent(p, "u1", "b1")
  \/ \E p \in Procs : RbActive(p)
  \/ \E p \in Procs : RbBike(p)
  \/ \E p \in Procs : RbCreate(p)
  \/ \E p \in Procs : RbStatus(p)
  \/ \E p \in Procs : RbCommit(p)
  \/ \E p \in Procs, i \in RentalIds : EventsUntouched /\ CallReturn(p, i)
  \/ \E p \in Procs : RtBike(p)
  \/ \E p \in Procs : RtUser(p)
  \/ \E p \in Procs : RtUpdate(p)
  \/ \E p \in Procs : RtStatus(p)
  \/ \E p \in Procs : RtCommit(p)
  \/ \E p \in Procs, i \in RentalIds : EventsUntouched /\ CallCancel(p, i)
  \/ \E p \in Procs : CnUpdate(p)
  \/ \E p \in Procs : CnStatus(p)
  \/ \E p \in Procs : CnCommit(p)
  \/ \E p \in Procs : EventsUntouched /\ CallSchedule(p, "b1")
  \/ \E p \in Procs : MtCreate(p)
  \/ \E p \in Procs : MtStatus(p)
  \/ \E p \in Procs : MtCommit(p)
  \/ \E p \in Procs, m \in LogIds : EventsUntouched /\ CallComplete(p, m)
  \/ \E p \in Procs : McStatus(p)
  \/ \E p \in Procs : McCommit(p)
  \/ \E p \in Procs : FleetUntouched /\ CallRegister(p, "u1", "e1")
  \/ \E p \in Procs : RgEvent(p)
  \/ \E p \in Procs : RgExisting(p)
  \/ \E p \in Procs : RgCreate(p)
  \/ \E p \in Procs : RgInc(p)
  \/ \E p \in Procs : RgCommit(p)
  \/ \E p \in Procs : FleetUntouched /\ CallUnregister(p, "u1", "e1")
  \/ \E p \in Procs : UnPart(p)
  \/ \E p \in Procs : UnDelete(p)
  \/ \E p \in Procs : UnDec(p)
  \/ \E p \in Procs : UnCommit(p)
  \/ \E p \in Procs : Respond(p)

CoordSpec == Init /\ [][CoordNext]_vars

\* one caller, one request at a time: a rider starts and returns rentals of one
\* bicycle, and the rider's stratum is changed between the requests
TierSeqNext ==
  \/ Tick
  \/ CallRent("w1", "u1", "b1")
  \/ RbActive("w1")
  \/ RbBike("w1")
  \/ RbCreate("w1")
  \/ RbStatus("w1")
  \/ RbCommit("w1")
  \/ \E i \in RentalIds : CallReturn("w1", i)
  \/ RtBike("w1")
  \/ RtUser("w1")
  \/ RtUpdate("w1")
  \/ RtStatus("w1")
  \/ RtCommit("w1")
  \/ \E t \in Tiers : pc["w1"] = "idle" /\ UserUpdate("u1", t)
  \/ Respond("w1")

TierSeqSpec == Init /\ [][TierSeqNext]_vars

\* one caller, one request at a time, with a clock that does not advance while
\* a request is being served: every step of a call sees the time the call was made at
EventClockSeqNext ==
  \/ pc["w1"] = "idle" /\ Tick
  \/ \E u \in Users, e \in Events \cup {NoEvent} : CallRegister("w1", u, e)
  \/ RgEvent("w1")
  \/ RgExisting("w1")
  \/ RgCreate("w1")
  \/ RgInc("w1")
  \/ RgCommit("w1")
  \/ \E u \in Users, e \in Events \cup {NoEvent} : CallUnregister("w1", u, e)
  \/ UnPart("w1")
  \/ UnDelete("w1")
  \/ UnDec("w1")
  \/ UnCommit("w1")
  \/ Respond("w1")

EventClockSeqSpec == EventInit /\ [][EventClockSeqNext]_vars

\* one caller issuing register, unregister and mark-attendance requests one
\* after the other
AttendSeqNext ==
  \/ \E u \in Users, e \in Events \cup {NoEvent} : CallRegister("w1", u, e)
  \/ RgEvent("w1")
  \/ RgExisting("w1")
  \/ RgCreate("w1")
  \/ RgInc("w1")
  \/ RgCommit("w1")
  \/ \E u \in Users, e \in Events \cup {NoEvent} : CallUnregister("w1", u, e)
  \/ UnPart("w1")
  \/ UnDelete("w1")
  \/ UnDec("w1")
  \/ UnCommit("w1")
  \/ \E u \in Users, e \in Events \cup {NoEvent} : CallMarkAttendance("w1", u, e)
  \/ MaPart("w1")
  \/ MaUpdate("w1")
  \/ Respond("w1")

AttendSeqSpec == EventInit /\ [][AttendSeqNext]_vars

\* the pricing functions on every argument list within the bounds
PricingInit ==
  /\ now = 0
  /\ users = [u \in Users |-> [tier |-> UserTier[u]]]
  /\ bicycles = [b \in Bikes |-> [exists |-> TRUE, status |-> "available", rate |-> BikeRate[b]]]
  /\ rentals = <<>>
  /\ payments = <<>>
  /\ events = [e \in Events |-> [maxParticipants |-> 1, currentParticipants |-> 0,
                                  eventDate |-> MaxClock]]
  /\ participants = {}
  /\ nextPid = 1
  /\ logs = <<>>
  /\ pc = [p \in Procs |-> "idle"]
  /\ call = [p \in Procs |-> NoCall]
  /\ loc = [p \in Procs |-> NoLoc]
  /\ txn = [p \in Procs |-> NoTxn]
  /\ res = [p \in Procs |-> "none"]
  /\ hist = <<>>
  /\ \E s \in Times, e \in Times, r \in Rates, t \in Tiers, c \in Times :
       \E l \in {x \in Times : x >= e} :
         calc = [NoCalc EXCEPT !.startTime = s, !.endTime = e, !.laterEnd = l,
                               !.pricePerHour = r, !.stratum = t, !.clock = c]

PricingNext ==
  \/ ApplyDiscount
  \/ ApplyPrice
  \/ ApplyValidate

PricingSpec == PricingInit /\ [][PricingNext]_vars

\* one caller: the rider u1 rents and returns the bicycle b1 while the
\* administration changes its hourly rate
RateSeqNext ==
  \/ Tick
  \/ CallRent("w1", "u1", "b1")
  \/ RbActive("w1")
  \/ RbBike("w1")
  \/ RbCreate("w1")
  \/ RbStatus("w1")
  \/ RbCommit("w1")
  \/ \E i \in RentalIds : CallReturn("w1", i)
  \/ RtBike("w1")
  \/ RtUser("w1")
  \/ RtUpdate("w1")
  \/ RtStatus("w1")
  \/ RtCommit("w1")
  \/ \E r \in Rates : CallUpdate("w1", "b1", r)
  \/ Respond("w1")

RateSeqSpec == Init /\ [][RateSeqNext]_vars

\* one caller starting rentals, on existing and unknown bicycles, while the
\* administration sets bicycle statuses
OrderSeqNext ==
  \/ \E u \in Users, b \in Bikes \cup {NoBike} : CallRent("w1", u, b)
  \/ RbActive("w1")
  \/ RbBike("w1")
  \/ RbCreate("w1")
  \/ RbStatus("w1")
  \/ RbCommit("w1")
  \/ \E b \in Bikes, st \in Statuses : CallUpdateStatus("w1", b, st)
  \/ Respond("w1")

OrderSeqSpec == Init /\ [][OrderSeqNext]_vars

\* two workers running register, unregister and mark-attendance for one event
AttendNext ==
  \/ \E p \in Procs, u \in Users : CallRegister(p, u, "e1")
  \/ \E p \in Procs : RgEvent(p)
  \/ \E p \in Procs : RgExisting(p)
  \/ \E p \in Procs : RgCreate(p)
  \/ \E p \in Procs : RgInc(p)
  \/ \E p \in Procs : RgCommit(p)
  \/ \E p \in Procs, u \in Users : CallUnregister(p, u, "e1")
  \/ \E p \in Procs : UnPart(p)
  \/ \E p \in Procs : UnDelete(p)
  \/ \E p \in Procs : UnDec(p)
  \/ \E p \in Procs : UnCommit(p)
  \/ \E p \in Procs, u \in Users : CallMarkAttendance(p, u, "e1")
  \/ \E p \in Procs : MaPart(p)
  \/ \E p \in Procs : MaUpdate(p)
  \/ \E p \in Procs : Respond(p)

AttendSpec == InitCap(0) /\ [][AttendNext]_vars

\* the rider u1 registers once for the event e1; from then on two workers run
\* unregister calls of u1 for e1
TwinUnregisterNext ==
  \/ \E p \in Procs :
       /\ nextPid = 1 /\ \A q \in Procs : pc[q] = "idle"
       /\ CallRegister(p, "u1", "e1")
  \/ \E p \in Procs : RgEvent(p)
  \/ \E p \in Procs : RgExisting(p)
  \/ \E p \in Procs : RgCreate(p)
  \/ \E p \in Procs : RgInc(p)
  \/ \E p \in Procs : RgCommit(p)
  \/ \E p \in Procs : nextPid > 1 /\ CallUnregister(p, "u1", "e1")
  \/ \E p \in Procs : UnPart(p)
  \/ \E p \in Procs : UnDelete(p)
  \/ \E p \in Procs : UnDec(p)
  \/ \E p \in Procs : UnCommit(p)
  \/ \E p \in Procs : Respond(p)

TwinUnregisterSpec == EventInit /\ [][TwinUnregisterNext]_vars

\* one worker registers riders for the event e1, one after the other, while the
\* other worker updates the capacity of e1
EventUpdateNext ==
  \/ \E u \in Users : CallRegister("w1", u, "e1")
  \/ RgEvent("w1")
  \/ RgExisting("w1")
  \/ RgCreate("w1")
  \/ RgInc("w1")
  \/ RgCommit("w1")
  \/ \E e \in Events \cup {NoEvent}, m \in 1..Cardinality(Users) : CallUpdateEvent("w2", e, m)
  \/ EuUpdate("w2")
  \/ \E p \in Procs : Respond(p)

EventUpdateSpec == EventInit /\ [][EventUpdateNext]_vars

\* the next await of the handler that worker p is running resolves
HandlerStep(p) ==
  \/ RbActive(p) \/ RbBike(p) \/ RbCreate(p) \/ RbStatus(p) \/ RbCommit(p)
  \/ RtBike(p) \/ RtUser(p) \/ RtUpdate(p) \/ RtStatus(p) \/ RtCommit(p)
  \/ CnUpdate(p) \/ CnStatus(p) \/ CnCommit(p)
  \/ MtCreate(p) \/ MtStatus(p) \/ MtCommit(p)
  \/ McStatus(p) \/ McCommit(p)
  \/ RgEvent(p) \/ RgExisting(p) \/ RgCreate(p) \/ RgInc(p) \/ RgCommit(p)
  \/ UnPart(p) \/ UnDelete(p) \/ UnDec(p) \/ UnCommit(p)

\* the event loop runs every continuation whose promise has settled: a handler
\* that can take its next step is not passed over forever
\* two workers running start- and return-rental, schedule- and
\* complete-maintenance on one bicycle, or register and unregister on one event
CoordLiveNext ==
  \/ \E p \in Procs : EventsUntouched /\ CallRent(p, "u1", "b1")
  \/ \E p \in Procs : RbActive(p)
  \/ \E p \in Procs : RbBike(p)
  \/ \E p \in Procs : RbCreate(p)
  \/ \E p \in Procs : RbStatus(p)
  \/ \E p \in Procs : RbCommit(p)
  \/ \E p \in Procs, i \in RentalIds : EventsUntouched /\ CallReturn(p, i)
  \/ \E p \in Procs : RtBike(p)
  \/ \E p \in Procs : RtUser(p)
  \/ \E p \in Procs : RtUpdate(p)
  \/ \E p \in Procs : RtStatus(p)
  \/ \E p \in Procs : RtCommit(p)
  \/ \E p \in Procs : EventsUntouched /\ CallSchedule(p, "b1")
  \/ \E p \in Procs : MtCreate(p)
  \/ \E p \in Procs : MtStatus(p)
  \/ \E p \in Procs : MtCommit(p)
  \/ \E p \in Procs, m \in LogIds : EventsUntouched /\ CallComplete(p, m)
  \/ \E p \in Procs : McStatus(p)
  \/ \E p \in Procs : McCommit(p)
  \/ \E p \in Procs : FleetUntouched /\ CallRegister(p, "u1", "e1")
  \/ \E p \in Procs : RgEvent(p)
  \/ \E p \in Procs : RgExisting(p)
  \/ \E p \in Procs : RgCreate(p)
  \/ \E p \in Procs : RgInc(p)
  \/ \E p \in Procs : RgCommit(p)
  \/ \E p \in Procs : FleetUntouched /\ CallUnregister(p, "u1", "e1")
  \/ \E p \in Procs : UnPart(p)
  \/ \E p \in Procs : UnDelete(p)
  \/ \E p \in Procs : UnDec(p)
  \/ \E p \in Procs : UnCommit(p)
  \/ \E p \in Procs : Respond(p)

CoordLiveSpec ==
  Init /\ [][CoordLiveNext]_vars /\ \A p \in Procs : WF_vars(HandlerStep(p))

\* ------------------------------------------------------------- properties
Terminal(i) == rentals[i].status \in {"completed", "cancelled"}

\* C1: in every state reachable by interleaved start-rental, return-rental and
\* cancel-rental calls, each bicycle is referenced by at most one rental with
\* status = active.
C1_OneActiveRentalPerBicycle ==
  \A b \in Bikes : Cardinality(findActiveByBicycle(b)) <= 1

\* C2: in every state reachable by interleaved start-rental calls, each rider
\* holds at most one rental with status = active.
C2_OneActiveRentalPerRider ==
  \A u \in Users : Cardinality(findActiveByUser(u)) <= 1

\* two finished start-rental calls by different riders for the same bicycle, in a
\* store whose only rentals are the ones these two calls created: the bicycle
\* was available and neither rider was renting when the calls were made
RentRace(p, q) ==
  /\ p # q
  /\ pc[p] = "done" /\ pc[q] = "done"
  /\ call[p].op = "rent" /\ call[q].op = "rent"
  /\ call[p].bike \in Bikes /\ call[p].bike = call[q].bike
  /\ call[p].user # call[q].user
  /\ Len(rentals) = Cardinality({x \in {p, q} : res[x] = "ok"})

\* C3: of two start-rental calls by two different riders against the same
\* available bicycle, exactly one succeeds, leaving the bicycle rented with
\* exactly one active rental, and the other fails with BicycleNotAvailable.
C3_ExactlyOneRentWins ==
  \A p, q \in Procs :
    RentRace(p, q) =>
      /\ {res[p], res[q]} = {"ok", "BicycleNotAvailable"}
      /\ bicycles[call[p].bike].status = "rented"
      /\ Cardinality(findActiveByBicycle(call[p].bike)) = 1

\* C9: once a rental has status completed or cancelled, no return-rental or
\* cancel-rental step ever changes its status again.
C9_TerminalStatusIsFinal ==
  [][\A i \in 1..Len(rentals) : Terminal(i) => rentals'[i].status = rentals[i].status]_vars

\* C10: cancel-rental called on a rental whose status is completed or cancelled
\* fails with RentalNotActive and leaves every rental, bicycle and payment
\* record unchanged.
C10_CancelTerminalFails ==
  [][\A p \in Procs, i \in RentalIds :
       (pc[p] = "idle" /\ pc'[p] # "idle" /\ call'[p].op = "cancel" /\ call'[p].rental = i
        /\ RentalExists(i) /\ Terminal(i))
       => (pc'[p] = "done" /\ res'[p] = "RentalNotActive"
           /\ rentals' = rentals /\ bicycles' = bicycles /\ payments' = payments)]_vars

\* a cancel-rental call has been refused on a completed or cancelled rental
C10_Witness ==
  \E p \in Procs :
    /\ pc[p] = "done" /\ call[p].op = "cancel" /\ res[p] = "RentalNotActive"
    /\ RentalExists(call[p].rental) /\ Terminal(call[p].rental)

Capacity(e) == events[e].maxParticipants
Count(e) == events[e].currentParticipants

\* C4: in every state reachable by interleaved register and unregister calls, an
\* event whose capacity is set has currentParticipants <= capacity.
C4_CountWithinCapacity ==
  \A e \in Events : Capacity(e) # 0 => Count(e) <= Capacity(e)

\* two finished register calls by different riders for the same event of
\* capacity 1 whose date is still ahead, in a store whose only registrations are
\* the ones these two calls made: the counter was 0 when the calls were made
RegisterRace(p, q) ==
  /\ p # q
  /\ pc[p] = "done" /\ pc[q] = "done"
  /\ call[p].op = "register" /\ call[q].op = "register"
  /\ call[p].event \in Events /\ call[p].event = call[q].event
  /\ call[p].user # call[q].user
  /\ Capacity(call[p].event) = 1
  /\ events[call[p].event].eventDate > now
  /\ nextPid - 1 = Cardinality({x \in {p, q} : res[x] = "ok"})

\* C5: of two register calls by two different riders against an event with
\* capacity 1 and currentParticipants 0, exactly one succeeds and the counter
\* becomes 1, the other fails with EventFull, and the counter is never above 1.
C5_LastSlotGoesToOne ==
  /\ \A e \in Events : Capacity(e) = 1 => Count(e) <= 1
  /\ \A p, q \in Procs :
       RegisterRace(p, q) =>
         /\ {res[p], res[q]} = {"ok", "EventFull"}
         /\ Count(call[p].event) = 1

UniqueRegistration ==
  \A e \in Events, u \in Users : Cardinality(findByEventAndUser(e, u)) <= 1

\* a register call of p ends in this step while its rider has a participant record
RegisterEndsOnRegistered(p) ==
  /\ call[p].op = "register" /\ pc[p] \notin {"idle", "done"} /\ pc'[p] = "done"
  /\ findByEventAndUser(call[p].event, call[p].user) # {}

CountBefore(i, e) == IF i = 1 THEN 0 ELSE hist[i - 1].cps[e]

\* requests i and i+1 of the caller: a successful register and a successful
\* unregister of the same rider for the same event
RoundTrip(i) ==
  /\ i + 1 <= Len(hist)
  /\ hist[i].op = "register" /\ hist[i].res = "ok"
  /\ hist[i + 1].op = "unregister" /\ hist[i + 1].res = "ok"
  /\ hist[i + 1].user = hist[i].user /\ hist[i + 1].event = hist[i].event

\* request i+2 of the caller: the same rider registers again while the event is ahead
RegistersAgain(i) ==
  /\ i + 2 <= Len(hist)
  /\ hist[i + 2].op = "register"
  /\ hist[i + 2].user = hist[i].user /\ hist[i + 2].event = hist[i].event
  /\ hist[i + 2].future[hist[i].event]

\* C8: for a future event, a successful register followed by a successful
\* unregister by the same rider returns currentParticipants to its value before
\* the register, and a subsequent register by that rider succeeds.
C8_RegisterUnregisterRoundTrip ==
  \A i \in 1..MaxCalls :
    RoundTrip(i) =>
      /\ hist[i + 1].cps[hist[i].event] = CountBefore(i, hist[i].event)
      /\ RegistersAgain(i) => hist[i + 2].res = "ok"

\* the caller registered, unregistered and registered again, all three accepted
C8_Witness ==
  \E i \in 1..MaxCalls :
    RoundTrip(i) /\ RegistersAgain(i) /\ hist[i + 2].res = "ok"

\* a call of p ends in this step with a failure
FailsNow(p) == pc[p] # "done" /\ pc'[p] = "done" /\ res'[p] # "ok"
\* a call of p ends in this step with its commit
CommitsNow(p) == pc[p] # "done" /\ pc'[p] = "done" /\ res'[p] = "ok"

\* C11: a coordinator operation (start, return, cancel, register, unregister,
\* schedule, complete) that ends with a failure, from a violated precondition or
\* from a write that fails part-way, has changed no bicycle, rental, payment,
\* participant, event counter or maintenance record: the stored records change
\* only in the step in which a call commits, and a failing call drops what it
\* had buffered.
C11_FailureChangesNothing ==
  [][/\ \A p \in Procs : FailsNow(p) => (dbVars' = dbVars /\ txn'[p] = NoTxn)
     /\ dbVars' # dbVars => \E p \in Procs : CommitsNow(p)]_vars

\* a start-rental call failed on its second write, after its rental was created
\* in the transaction, and no rental is stored
C11_Witness ==
  \E p \in Procs :
    /\ pc[p] = "done" /\ call[p].op = "rent" /\ res[p] = "WriteConflict"
    /\ rentals = <<>>

\* the preconditions of start rental hold in the current state
CanRent(u, b) ==
  /\ findActiveByUser(u) = {}
  /\ BikeExists(b) /\ bicycles[b].status = "available"

\* C12: for a rider of any tier (1 to 6, or none) with no active rental and an
\* existing bicycle with status = available, start rental succeeds, creates a
\* rental with status = active, baseRate = the bicycle's hourly rate and
\* discountPercentage = discountPercentage(rider's tier), and sets the bicycle
\* to rented.  (One caller: a refused call has left the records as they were
\* when it was made.)
C12_StartRentalSucceeds ==
  \A p \in Procs :
    (pc[p] = "done" /\ call[p].op = "rent") =>
      IF res[p] = "ok"
      THEN /\ rentals # <<>>
           /\ rentals[Len(rentals)].user = call[p].user
           /\ rentals[Len(rentals)].bike = call[p].bike
           /\ rentals[Len(rentals)].status = "active"
           /\ rentals[Len(rentals)].baseRate = bicycles[call[p].bike].rate
           /\ rentals[Len(rentals)].discountPercentage =
                calculateDiscountPercentage(users[call[p].user].tier)
           /\ bicycles[call[p].bike].status = "rented"
      ELSE ~CanRent(call[p].user, call[p].bike)

\* rental i becomes completed in this step
CompletesNow(i) == rentals[i].status # "completed" /\ rentals'[i].status = "completed"

\* what the pricing engine returns for rental i ended at endTime
PriceOf(i, endTime) ==
  calculateRentalPrice(rentals[i].start, endTime, rentals[i].baseRate,
                       users[rentals[i].user].tier)

\* C13: a successful return-rental sets the rental's end time and status =
\* completed, stores the discountAmount and totalAmount computed by the pricing
\* engine, sets the bicycle to available and creates a completed payment whose
\* amount is the rental's totalAmount, all in the single step of its commit.
C13_ReturnIsOneAtomicStep ==
  [][\A i \in 1..Len(rentals) :
       CompletesNow(i) =>
         /\ \E p \in Procs : CommitsNow(p) /\ call[p].op = "return" /\ call[p].rental = i
         /\ rentals'[i].end >= rentals[i].start /\ rentals'[i].end <= now
         /\ rentals'[i].discountAmount = PriceOf(i, rentals'[i].end).discountAmount
         /\ rentals'[i].totalAmount = PriceOf(i, rentals'[i].end).totalAmount
         /\ bicycles'[rentals[i].bike].status = "available"
         /\ payments' = Append(payments, [rental |-> i, amount |-> rentals'[i].totalAmount,
                                          status |-> "completed"])]_vars

\* a return has committed a rental that ran into its first billed hour: the
\* rental is completed, its bicycle available and its payment recorded
C13_Witness ==
  \E p \in Procs :
    /\ pc[p] = "done" /\ call[p].op = "return" /\ res[p] = "ok"
    /\ rentals[call[p].rental].status = "completed"
    /\ rentals[call[p].rental].totalAmount > 0
    /\ bicycles[rentals[call[p].rental].bike].status = "available"
    /\ \E k \in 1..Len(payments) :
         /\ payments[k].rental = call[p].rental
         /\ payments[k].amount = rentals[call[p].rental].totalAmount

\* PaymentRepository.findByRental(rentalId)
PaymentsOf(i) == {k \in 1..Len(payments) : payments[k].rental = i}

\* C14: in every state reachable by interleaved start, return and cancel calls
\* (repeated or concurrent returns of one rental included), a completed rental
\* has exactly one payment and an active or cancelled rental has none.
C14_OnePaymentPerCompletedRental ==
  \A i \in 1..Len(rentals) :
    Cardinality(PaymentsOf(i)) = IF rentals[i].status = "completed" THEN 1 ELSE 0

\* C15: in every reachable state, a bicycle with status = rented is referenced
\* by exactly one rental with status = active.
C15_RentedHasOneActiveRental ==
  \A b \in Bikes :
    (BikeExists(b) /\ bicycles[b].status = "rented") =>
      Cardinality(findActiveByBicycle(b)) = 1

\* a schedule call on an available bicycle commits with the bicycle in
\* maintenance, and a complete call commits with the bicycle of its record available
ScheduleAndCompleteSetStatus ==
  \A p \in Procs :
    /\ (CommitsNow(p) /\ call[p].op = "schedule" /\ bicycles[call[p].bike].status = "available")
         => bicycles'[call[p].bike].status = "maintenance"
    /\ (CommitsNow(p) /\ call[p].op = "complete")
         => bicycles'[logs[call[p].log].bike].status = "available"

\* a start-rental call of p for a bicycle in maintenance ends in this step (one
\* caller: the bicycle has been in maintenance since the call was made)
RentOfMaintainedEnds(p) ==
  /\ call[p].op = "rent" /\ pc[p] \notin {"idle", "done"} /\ pc'[p] = "done"
  /\ BikeExists(call[p].bike) /\ bicycles[call[p].bike].status = "maintenance"

\* C16 as claimed: scheduling maintenance on an available bicycle sets its status
\* to maintenance, completing the record sets it back to available, and every
\* start-rental call made while the status is maintenance fails with
\* BicycleNotAvailable without creating a rental.
C16_MaintenanceBlocksRental ==
  [][/\ ScheduleAndCompleteSetStatus
     /\ \A p \in Procs :
          RentOfMaintainedEnds(p) =>
            (res'[p] = "BicycleNotAvailable" /\ rentals' = rentals)]_vars

\* C16 as amended: scheduling maintenance on an available bicycle sets its status
\* to maintenance, completing the record sets it back to available, and every
\* start-rental call made while the status is maintenance fails without
\* creating a rental: with BicycleNotAvailable when the rider has no active
\* rental, and with RiderAlreadyRenting when the rider has one.
C16_MaintenanceRefusesRental ==
  [][/\ ScheduleAndCompleteSetStatus
     /\ \A p \in Procs :
          RentOfMaintainedEnds(p) =>
            /\ rentals' = rentals
            /\ res'[p] = IF findActiveByUser(call[p].user) = {}
                         THEN "BicycleNotAvailable" ELSE "RiderAlreadyRenting"]_vars

\* a start-rental call has been refused on a bicycle that is in maintenance
C16_Witness ==
  \E p \in Procs :
    /\ pc[p] = "done" /\ call[p].op = "rent" /\ res[p] = "BicycleNotAvailable"
    /\ bicycles[call[p].bike].status = "maintenance"
    /\ logs # <<>>

\* C17: the only bicycle status changes the maintenance coordinator performs are
\* available to maintenance (schedule) and maintenance to available (complete);
\* schedule and complete never change the status of a rented or retired bicycle.
C17_MaintenanceTransitionsOnly ==
  [][\A p \in Procs, b \in Bikes :
       (CommitsNow(p) /\ bicycles'[b].status # bicycles[b].status) =>
         /\ call[p].op = "schedule" =>
              (bicycles[b].status = "available" /\ bicycles'[b].status = "maintenance")
         /\ call[p].op = "complete" =>
              (bicycles[b].status = "maintenance" /\ bicycles'[b].status = "available")]_vars

\* the error kinds start rental has in the specification
RentFailureKinds == {"RiderAlreadyRenting", "BicycleNotFound", "BicycleNotAvailable"}

\* C18: a start-rental call whose transaction the store aborts because of a write
\* conflict on the bicycle returns the typed failure of a stale precondition
\* (BicycleNotAvailable), not a distinct error kind.
C18_ConflictIsTypedFailure ==
  [][\A p \in Procs :
       (FailsNow(p) /\ pc[p] = "rb_status" /\ ConflictBike(p, call[p].bike)) =>
         res'[p] \in RentFailureKinds]_vars

\* C19: return-rental on an existing rental with status = active always
\* succeeds; it fails only with RentalNotFound (no such rental) or
\* RentalNotActive (status not active), in every state reachable through the
\* coordinators' and the administrative operations.  (One caller: a refused
\* call has left the records as they were when it was made.)
C19_ReturnOfActiveSucceeds ==
  \A p \in Procs :
    (pc[p] = "done" /\ call[p].op = "return" /\ res[p] # "ok") =>
      \/ res[p] = "RentalNotFound" /\ ~RentalExists(call[p].rental)
      \/ res[p] = "RentalNotActive" /\ RentalExists(call[p].rental)
                                     /\ rentals[call[p].rental].status # "active"

\* every active rental references a bicycle that exists
ActiveRentalsHaveBicycle ==
  \A i \in 1..Len(rentals) : rentals[i].status = "active" => BikeExists(rentals[i].bike)

\* a delete call for a rented bicycle arrives in this step
DeleteOfRentedArrives(p) ==
  /\ pc[p] = "idle" /\ pc'[p] # "idle" /\ call'[p].op = "delete"
  /\ BikeExists(call'[p].bike) /\ bicycles[call'[p].bike].status = "rented"

\* C20: deleting a bicycle whose status is rented fails and changes nothing, so
\* in every reachable state every rental with status = active references a
\* bicycle that still exists.
C20_ActiveRentalKeepsItsBicycle ==
  /\ []ActiveRentalsHaveBicycle
  /\ [][\A p \in Procs :
         DeleteOfRentedArrives(p) =>
           (pc'[p] = "done" /\ res'[p] = "BicycleRented" /\ dbVars' = dbVars)]_vars

\* rental i becomes cancelled in this step
CancelsNow(i) == rentals[i].status # "cancelled" /\ rentals'[i].status = "cancelled"

\* C21: a successful cancel-rental sets the rental's status to cancelled and its
\* end time, sets the bicycle's status to available, and leaves the rental's
\* discountAmount and totalAmount and the payment records unchanged.
C21_CancelEffects ==
  [][\A i \in 1..Len(rentals) :
       CancelsNow(i) =>
         /\ \E p \in Procs : CommitsNow(p) /\ call[p].op = "cancel" /\ call[p].rental = i
         /\ rentals'[i].end >= rentals[i].start /\ rentals'[i].end <= now
         /\ bicycles'[rentals[i].bike].status = "available"
         /\ rentals'[i].discountAmount = rentals[i].discountAmount
         /\ rentals'[i].totalAmount = rentals[i].totalAmount
         /\ payments' = payments]_vars

\* a cancel has committed: the rental is cancelled with an end time, its bicycle
\* is available and no payment exists
C21_Witness ==
  \E p \in Procs :
    /\ pc[p] = "done" /\ call[p].op = "cancel" /\ res[p] = "ok"
    /\ rentals[call[p].rental].status = "cancelled"
    /\ rentals[call[p].rental].end >= rentals[call[p].rental].start
    /\ bicycles[rentals[call[p].rental].bike].status = "available"
    /\ payments = <<>>

\* the subtotal of rental i ended at endTime: billed hours times base rate
SubtotalOf(i, endTime) ==
  CeilDiv(Max0(endTime - rentals[i].start), TicksPerHour) * rentals[i].baseRate

\* C22: return-rental prices the rental with the tier the rider has at return
\* time: the completed rental's discountAmount is subtotal times
\* discountPercentage(tier at return) divided by 100, also when the tier has
\* changed since the start.  (One caller: the tier does not change during the
\* return call.)
C22_ReturnUsesCurrentTier ==
  [][\A i \in 1..Len(rentals) :
       CompletesNow(i) =>
         rentals'[i].discountAmount =
           (SubtotalOf(i, rentals'[i].end)
              * calculateDiscountPercentage(users[rentals[i].user].tier)) \div 100]_vars

\* a rental started without discount was returned after the rider's tier had
\* changed, and carries the discount of the new tier
C22_Witness ==
  \E i \in 1..Len(rentals) :
    /\ rentals[i].status = "completed"
    /\ rentals[i].discountPercentage = 0
    /\ rentals[i].discountAmount > 0

\* a register or unregister call of p for an event whose date the clock has
\* reached ends in this step
PastEventCallEnds(p) ==
  /\ call'[p].op \in EventOps /\ pc[p] # "done" /\ pc'[p] = "done"
  /\ call'[p].event \in Events
  /\ events[call'[p].event].eventDate <= now

\* C23: once the evaluation clock has reached an event's date, every register and
\* unregister call for that event fails with EventInPast, and the event's
\* participant records and currentParticipants do not change any more.
C23_PastEventIsClosed ==
  [][/\ \A p \in Procs : PastEventCallEnds(p) => res'[p] = "EventInPast"
     /\ \A e \in Events :
          events[e].eventDate <= now =>
            /\ events'[e].currentParticipants = events[e].currentParticipants
            /\ {x \in participants' : x.event = e} = {x \in participants : x.event = e}]_vars

\* a mark-attendance call of p for an existing event ends in this step
AttendEnds(p) ==
  /\ call'[p].op = "attend" /\ pc[p] # "done" /\ pc'[p] = "done"
  /\ call'[p].event \in Events

\* C24: mark-attendance for a registered (event, rider) pair sets that
\* participant's attendanceStatus to attended and leaves the event's
\* currentParticipants and every other participant record unchanged; for a pair
\* with no participant record it fails with NotRegistered and changes nothing.
C24_MarkAttendanceEffects ==
  [][\A p \in Procs :
       AttendEnds(p) =>
         IF findByEventAndUser(call'[p].event, call'[p].user) = {}
         THEN res'[p] = "NotRegistered" /\ UNCHANGED dbVars
         ELSE /\ res'[p] = "ok"
              /\ participants' =
                   {IF x.event = call'[p].event /\ x.user = call'[p].user
                    THEN [x EXCEPT !.status = "attended"] ELSE x : x \in participants}
              /\ events' = events]_vars

\* a rider marked as attended next to a rider of the same event still registered
C24_Witness ==
  \E x, y \in participants :
    /\ x.event = y.event /\ x.user # y.user
    /\ x.status = "attended" /\ y.status = "registered"
    /\ events[x.event].currentParticipants = 2

\* the discount table of the fare rules, by socioeconomic tier 1..6
DiscountTable == <<10, 10, 5, 5, 0, 0>>
TableDiscount(t) == IF t \in 1..6 THEN DiscountTable[t] ELSE 0

\* C25: discountPercentage returns 10 for tiers 1 and 2, 5 for tiers 3 and 4,
\* and 0 for tiers 5 and 6 and for an absent tier.
C25_DiscountByTier ==
  calc.discount # <<>> => calc.discount[1] = TableDiscount(calc.stratum)

C25_Witness == calc.stratum = 4 /\ calc.discount = <<5>>

\* C26: for every positive elapsed time the price bills the elapsed hours
\* rounded up to the next whole hour (at least 1), subtotal = billed hours x
\* hourly rate, discountAmount = subtotal x discountPercentage / 100 and
\* totalAmount = subtotal - discountAmount; 90 minutes at 5000 an hour with no
\* tier give 2, 10000, 0, 10000 and one hour at 8000 an hour for tier 1 gives
\* 1, 8000, 800, 7200.
C26_PriceOfPositiveElapsedTime ==
  (calc.price # <<>> /\ calc.endTime > calc.startTime) =>
    LET r == calc.price[1]
        elapsed == calc.endTime - calc.startTime
    IN /\ r.hours >= 1
       /\ (r.hours - 1) * TicksPerHour < elapsed /\ elapsed <= r.hours * TicksPerHour
       /\ r.subtotal = r.hours * calc.pricePerHour
       /\ r.discountAmount * 100 = r.subtotal * TableDiscount(calc.stratum)
       /\ r.totalAmount = r.subtotal - r.discountAmount
       /\ (2 * elapsed = 3 * TicksPerHour /\ calc.pricePerHour = 5000 /\ calc.stratum = 0) =>
            <<r.hours, r.subtotal, r.discountAmount, r.totalAmount>> = <<2, 10000, 0, 10000>>
       /\ (elapsed = TicksPerHour /\ calc.pricePerHour = 8000 /\ calc.stratum = 1) =>
            <<r.hours, r.subtotal, r.discountAmount, r.totalAmount>> = <<1, 8000, 800, 7200>>

\* the price of ninety minutes at 5000 an hour without a tier
C26_Witness ==
  /\ calc.price # <<>>
  /\ 2 * (calc.endTime - calc.startTime) = 3 * TicksPerHour
  /\ calc.pricePerHour = 5000 /\ calc.stratum = 0
  /\ calc.price[1].hours = 2

\* C27: the price is monotonic in elapsed time: for a fixed start, hourly rate
\* and tier, if end1 <= end2 then the subtotal for end1 is at most the subtotal
\* for end2.
C27_SubtotalMonotonic ==
  (calc.price # <<>> /\ calc.endTime <= calc.laterEnd) =>
    calc.price[1].subtotal <= calc.laterPrice[1].subtotal

C27_Witness ==
  /\ calc.price # <<>>
  /\ calc.endTime < calc.laterEnd
  /\ calc.price[1].subtotal < calc.laterPrice[1].subtotal

\* C28: for every non-negative hourly rate, every start and end time and every
\* tier, the subtotal, discountAmount and totalAmount of the price are
\* non-negative and totalAmount is at most subtotal.
C28_AmountsNonNegative ==
  (calc.price # <<>> /\ calc.pricePerHour >= 0) =>
    LET r == calc.price[1]
    IN r.subtotal >= 0 /\ r.discountAmount >= 0 /\ r.totalAmount >= 0
       /\ r.totalAmount <= r.subtotal

\* a price for an end before the start, and one with a discount taken off
C28_Witness ==
  /\ calc.price # <<>>
  /\ calc.endTime < calc.startTime
  /\ calc.laterPrice[1].discountAmount > 0

\* C29: the rental-window validation fails exactly when end <= start or start is
\* later than the evaluation clock, and succeeds for every other pair.
C29_WindowValidation ==
  calc.valid # <<>> =>
    (calc.valid[1] # "ok" <=> (calc.endTime <= calc.startTime \/ calc.startTime > calc.clock))

C29_Witness ==
  /\ calc.valid = <<"ok">>
  /\ calc.startTime = calc.clock
  /\ calc.endTime = calc.startTime + 1

\* C30: a rental's baseRate never changes after the rental is created: changing
\* the bicycle's hourly rate while the rental is active changes neither the
\* rental's baseRate nor the price computed at return, which uses the rate
\* copied at start.
C30_BaseRateIsFixed ==
  [][\A i \in 1..Len(rentals) :
       /\ rentals'[i].baseRate = rentals[i].baseRate
       /\ CompletesNow(i) =>
            rentals'[i].totalAmount + rentals'[i].discountAmount =
              SubtotalOf(i, rentals'[i].end)]_vars

\* a completed rental priced at its own rate after the bicycle's rate was changed
C30_Witness ==
  \E i \in 1..Len(rentals) :
    /\ rentals[i].status = "completed"
    /\ bicycles[rentals[i].bike].rate # rentals[i].baseRate
    /\ rentals[i].totalAmount > 0

\* a start-rental call of p ends in this step
RentEnds(p) == call[p].op = "rent" /\ pc[p] # "done" /\ pc'[p] = "done"

\* C31: start rental reports the first violated precondition in a fixed order:
\* RiderAlreadyRenting if the rider has an active rental, otherwise
\* BicycleNotFound if the bicycle does not exist, otherwise BicycleNotAvailable
\* if the bicycle's status is rented, maintenance or retired; in each case no
\* rental is created and no bicycle status changes.
C31_FirstViolatedPrecondition ==
  [][\A p \in Procs :
       RentEnds(p) =>
         LET u == call[p].user
             b == call[p].bike
             same == rentals' = rentals /\ bicycles' = bicycles
         IN /\ findActiveByUser(u) # {} => res'[p] = "RiderAlreadyRenting" /\ same
            /\ (findActiveByUser(u) = {} /\ ~BikeExists(b)) =>
                 res'[p] = "BicycleNotFound" /\ same
            /\ (findActiveByUser(u) = {} /\ BikeExists(b)
                  /\ bicycles[b].status \in {"rented", "maintenance", "retired"}) =>
                 res'[p] = "BicycleNotAvailable" /\ same]_vars

\* a rider with an active rental asked for an unknown bicycle and was told
\* RiderAlreadyRenting
C31_Witness ==
  \E p \in Procs :
    /\ pc[p] = "done" /\ call[p].op = "rent"
    /\ ~BikeExists(call[p].bike)
    /\ findActiveByUser(call[p].user) # {}
    /\ res[p] = "RiderAlreadyRenting"

\* C32: in every state reachable by any interleaving of rental-coordinator and
\* maintenance-coordinator operations, every rental with status active
\* references a bicycle whose status is rented.
C32_ActiveRentalOnRentedBicycle ==
  \A i \in 1..Len(rentals) :
    rentals[i].status = "active" =>
      BikeExists(rentals[i].bike) /\ bicycles[rentals[i].bike].status = "rented"

\* C33: in every state reachable by any interleaving of register, unregister
\* and mark-attendance calls, each event's currentParticipants equals the number
\* of EventParticipant records that exist for that event.
C33_CounterEqualsRecords ==
  \A e \in Events :
    events[e].currentParticipants = Cardinality({x \in participants : x.event = e})

\* two records, one of them marked as attended, while an unregister is in flight
C33_Witness ==
  /\ \E x \in participants : x.status = "attended"
  /\ \E e \in Events : events[e].currentParticipants = 2
  /\ \E p \in Procs : pc[p] = "un_commit"

\* an unregister call of p ends in this step
UnregisterEnds(p) == call[p].op = "unregister" /\ pc[p] # "done" /\ pc'[p] = "done"

\* C34: when two unregister calls by the same rider for the same event run
\* concurrently, at most one succeeds and currentParticipants is decremented
\* exactly once; the other fails without changing the counter.
C34_TwinUnregister ==
  /\ [](\A e \in Events : events[e].currentParticipants \in {0, 1})
  /\ [](\A p, q \in Procs :
          (p # q /\ pc[p] = "done" /\ pc[q] = "done"
              /\ call[p].op = "unregister" /\ call[q].op = "unregister")
            => ~(res[p] = "ok" /\ res[q] = "ok"))
  /\ [][\A p \in Procs :
          UnregisterEnds(p) =>
            LET e == call[p].event
            IN IF res'[p] = "ok"
               THEN /\ events[e].currentParticipants = 1
                    /\ events'[e].currentParticipants = 0
                    /\ participants' = {}
               ELSE events' = events /\ participants' = participants]_vars

\* one of two overlapping unregister calls committed and the other one failed
C34_Witness ==
  \E p, q \in Procs :
    /\ pc[p] = "done" /\ call[p].op = "unregister" /\ res[p] = "ok"
    /\ pc[q] = "done" /\ call[q].op = "unregister" /\ res[q] \in {"WriteConflict", "CancelFailed"}
    /\ events["e1"].currentParticipants = 0

\* C35: an event update that changes the capacity never leaves the event with
\* currentParticipants greater than the new capacity, including when the update
\* runs concurrently with a register call for the same event.
C35_UpdateKeepsCountWithinCapacity ==
  [][\A p \in Procs :
       (call[p].op = "updateEvent" /\ CommitsNow(p)) =>
         events'[call[p].event].currentParticipants
           <= events'[call[p].event].maxParticipants]_vars

\* C36: in every reachable state, a rental has an end time if and only if its
\* status is completed or cancelled, and has a totalAmount if and only if its
\* status is completed.
C36_EndAndTotalFollowStatus ==
  \A i \in 1..Len(rentals) :
    /\ rentals[i].end # -1 <=> rentals[i].status \in {"completed", "cancelled"}
    /\ rentals[i].totalAmount # -1 <=> rentals[i].status = "completed"

\* C37: for every completed rental, the stored discountAmount equals billed
\* hours x baseRate x the rental's stored discountPercentage / 100: the discount
\* percentage recorded at start is the one applied at return.
C37_StoredPercentageApplied ==
  \A i \in 1..Len(rentals) :
    rentals[i].status = "completed" =>
      rentals[i].discountAmount * 100 =
        SubtotalOf(i, rentals[i].end) * rentals[i].discountPercentage

\* worker p is inside a handler
InFlight(p) == pc[p] \notin {"idle", "done"}
\* the handler of p has returned or thrown and its transaction is over
Finished(p) == pc[p] = "done" /\ ~txn[p].open /\ res[p] # "pending"

====